---- MODULE Spec2Model ----
(***************************************************************************)
(* Pakhuis: a JSON document store over SQLite (src/pakhuis/database.py),   *)
(* its web service (src/pakhuis/webservice.py) and the two-peer sync       *)
(* client (src/pakhuis/sync.py).                                           *)
(*                                                                         *)
(* Every table of the database is a sequence of rows in insertion (rowid)  *)
(* order: none of the tables has a key, so duplicates are kept and a       *)
(* query without ORDER BY scans in rowid order.  Every variable is indexed *)
(* by peer, a peer being one service instance with its own database file.  *)
(***************************************************************************)
EXTENDS Integers, Sequences, FiniteSets, TLC

VARIABLES
    pakhuis,        \* [peer -> Seq(row)]   table PAKHUIS
    search_keys,    \* [peer -> Seq(row)]   table SEARCH_KEYS
    search_values,  \* [peer -> Seq(row)]   table SEARCH_VALUES
    bin_config,     \* [peer -> Seq(row)]   table BIN_CONFIG
    bin_cfg,        \* [peer -> [bin -> "" | "Y" | "N"]]  PakhuisDatabase.bin_cfg
    last,           \* the last direct call of a database method that can write
    sync,           \* [run -> the locals and position of one ServerSync.run]
    writes,         \* the write requests the sync runs sent, in order
    conn            \* [client -> the method call it is in, statement by statement]

vars == <<pakhuis, search_keys, search_values, bin_config, bin_cfg, last,
          sync, writes, conn>>

dbvars == <<pakhuis, search_keys, search_values, bin_config, bin_cfg>>

syncvars == <<sync, writes>>

-----------------------------------------------------------------------------
(* Bounds and domains *)

\* client timestamps are 0..MaxDttm, in ticks of half a second
MaxDttm == 3

\* most rows one peer's PAKHUIS table holds
MaxRows == 3

\* datetime.isoformat(timespec="seconds") drops what is below one second
TicksPerSecond == 2

Peers == {"first", "second"}

Bins == {"x", "y"}

Ids == {"1", "2"}

Dttms == 0 .. MaxDttm

-----------------------------------------------------------------------------
(* JSON values.  Every value is a record of the same shape, so that any two *)
(* of them can be compared.                                                 *)

Absent == [k |-> "absent", v |-> <<>>, s |-> ""]

JNull == [k |-> "null", v |-> <<>>, s |-> ""]

JInt(n) == [k |-> "int", v |-> <<n>>, s |-> ""]

JStr(str) == [k |-> "str", v |-> <<>>, s |-> str]

JList(seq) == [k |-> "list", v |-> seq, s |-> ""]

\* a str given by its character codes (none of them needs a JSON escape)
JText(codes) == [k |-> "text", v |-> codes, s |-> ""]

\* a dict given by its items, in the order of the dict: <<[key, value], ...>>
JDict(items) == [k |-> "dict", v |-> items, s |-> ""]

\* a document is a JSON object with the members /a, /l and /id (some absent)
Doc(a, l) == [a |-> a, l |-> l, id |-> Absent]

D1 == Doc(JInt(1), JList(<<1, 2>>))

D2 == Doc(JInt(2), JList(<<2>>))

D3 == Doc(Absent, Absent)

\* a document whose /l is a number, not a list
D4 == Doc(JInt(2), JInt(5))

\* text of the CONTENT column: json.dumps(doc) is the one-element text <<doc>>,
\* and the empty string that del_item stores is <<>>
EmptyText == <<>>

json_dumps(content) == <<content>>

\* json.loads raises JSONDecodeError on the empty string
json_loads_fails(text) == text = EmptyText

json_loads(text) == text[1]

-----------------------------------------------------------------------------
(* sqlite3 datetime adapter *)

adapt_datetime_iso(val) == val \div TicksPerSecond

\* the dttm a request without a dttm parameter hands to set_item: the empty
\* string, which is not None, is bound as it is and sorts before every stamp
EmptyDttm == -1

\* the DTTM an insert stores: the adapter is registered for datetime values
bind_dttm(val) == IF val = EmptyDttm THEN EmptyDttm ELSE adapt_datetime_iso(val)

\* datetime.datetime.fromisoformat of a stored DTTM text: the whole second
fromisoformat(text) == text * TicksPerSecond

-----------------------------------------------------------------------------
(* One peer's database as a value, and its write-back.  A method of        *)
(* PakhuisDatabase is an operator from a database value to the database it *)
(* leaves and what it returns or raises; "with self.connect() as conn"     *)
(* commits when the block ends and rolls back when it raises.              *)

DbOf(p) ==
    [pakhuis |-> pakhuis[p], search_keys |-> search_keys[p],
     search_values |-> search_values[p], bin_config |-> bin_config[p],
     bin_cfg |-> bin_cfg[p]]

Commit(p, db) ==
    /\ pakhuis' = [pakhuis EXCEPT ![p] = db.pakhuis]
    /\ search_keys' = [search_keys EXCEPT ![p] = db.search_keys]
    /\ search_values' = [search_values EXCEPT ![p] = db.search_values]
    /\ bin_config' = [bin_config EXCEPT ![p] = db.bin_config]
    /\ bin_cfg' = [bin_cfg EXCEPT ![p] = db.bin_cfg]

EmptyDb ==
    [pakhuis |-> <<>>, search_keys |-> <<>>, search_values |-> <<>>,
     bin_config |-> <<>>, bin_cfg |-> [b \in Bins |-> ""]]

\* the greatest of a non-empty set of numbers
SetMax(S) == CHOOSE m \in S : \A n \in S : n <= m

SeqToSet(seq) == {seq[n] : n \in 1 .. Len(seq)}

\* (select max(DTTM) from PAKHUIS where BIN = P.BIN and ID = P.ID)
select_max_dttm(db, _bin, _id) ==
    SetMax({r.dttm : r \in {q \in SeqToSet(db.pakhuis) : q.bin = _bin /\ q.id = _id}})

\* STATUS text default "A": the column value of an insert that names no STATUS
status_default == "A"

\* a store that keeps one row a pair: the insert replaces the pair's rows
q_set_item_upsert(db, _bin, _id, dttm, text) ==
    [db EXCEPT !.pakhuis = Append(
        SelectSeq(@, LAMBDA r : ~(r.bin = _bin /\ r.id = _id)),
        [bin |-> _bin, id |-> _id, dttm |-> bind_dttm(dttm),
         status |-> status_default, content |-> text])]

\* _queries["set_item"]: insert into PAKHUIS (BIN, ID, DTTM, CONTENT) values (?, ?, ?, ?)
q_set_item(db, _bin, _id, dttm, text) ==
    [db EXCEPT !.pakhuis = Append(@,
        [bin |-> _bin, id |-> _id, dttm |-> bind_dttm(dttm),
         status |-> status_default, content |-> text])]

\* the result rows of "select P.CONTENT": the other columns are not in the row
select_content(rows) == [n \in 1 .. Len(rows) |-> [content |-> rows[n].content]]

\* a lookup of the latest row that has content, whatever came after it
q_get_item_latest_content(db, _bin, _id) ==
    select_content(SelectSeq(db.pakhuis, LAMBDA P :
        /\ P.bin = _bin
        /\ P.id = _id
        /\ P.content # EmptyText
        /\ \A n \in 1 .. Len(db.pakhuis) :
              LET r == db.pakhuis[n]
              IN (r.bin = _bin /\ r.id = _id /\ r.content # EmptyText)
                    => r.dttm <= P.dttm))

\* _queries["get_item"]: the rows of the pair with the greatest DTTM and STATUS 'A'
q_get_item(db, _bin, _id) ==
    select_content(SelectSeq(db.pakhuis, LAMBDA P :
        /\ P.bin = _bin
        /\ P.id = _id
        /\ P.dttm = select_max_dttm(db, P.bin, P.id)
        /\ P.status = "A"))

\* _queries["get_bin_items"] (and get_bin_item_ids): as get_item, for every id
\* of the bin, order by ID
q_get_bin_items_unordered(db, _bin) ==
    SelectSeq(db.pakhuis, LAMBDA P :
        /\ P.bin = _bin
        /\ P.dttm = select_max_dttm(db, P.bin, P.id)
        /\ P.status = "A")

-----------------------------------------------------------------------------
(* Bin config *)

\* _queries["get_bin_config"] and fetchone(): the first row of the bin, if any
q_get_bin_config(db, _bin) ==
    SelectSeq(db.bin_config, LAMBDA r : r.bin = _bin)

\* get_bin_config: the cached value, else the stored one (default "N"), cached
get_bin_config(db, _bin) ==
    IF db.bin_cfg[_bin] # ""
    THEN [db |-> db, include_id |-> db.bin_cfg[_bin] = "Y"]
    ELSE LET rows == q_get_bin_config(db, _bin)
             result == IF rows # <<>> THEN rows[1].include_id ELSE "N"
         IN [db |-> [db EXCEPT !.bin_cfg[_bin] = result],
             include_id |-> result = "Y"]

\* _get_content: decode the row's content and merge the id when configured;
\* row["id"] raises IndexError when the query did not select the ID column
_get_content(db, _bin, row) ==
    IF json_loads_fails(row.content)
    THEN [db |-> db, raised |-> TRUE, content |-> <<>>]
    ELSE LET cfg == get_bin_config(db, _bin)
             content == json_loads(row.content)
         IN IF cfg.include_id /\ "id" \notin DOMAIN row
            THEN [db |-> cfg.db, raised |-> TRUE, content |-> <<>>]
            ELSE [db |-> cfg.db, raised |-> FALSE,
                  content |-> <<IF cfg.include_id
                                THEN [content EXCEPT !.id = JStr(row.id)]
                                ELSE content>>]

-----------------------------------------------------------------------------
(* Index entries *)

\* json.dumps of a value stored in SEARCH_VALUES.VALUE: its text, as character
\* codes (SQLite compares TEXT bytewise)
RECURSIVE Digits(_)
Digits(n) == IF n < 10 THEN <<48 + n>> ELSE Digits(n \div 10) \o <<48 + (n % 10)>>

RECURSIVE Joined(_)
Joined(seq) ==
    IF seq = <<>> THEN <<>>
    ELSE IF Len(seq) = 1 THEN Digits(seq[1])
    ELSE Digits(seq[1]) \o <<44, 32>> \o Joined(Tail(seq))

json_dumps_value(v) ==
    CASE v.k = "null" -> <<110, 117, 108, 108>>
      [] v.k = "int" -> Digits(v.v[1])
      [] v.k = "list" -> <<91>> \o Joined(v.v) \o <<93>>
      [] v.k = "text" -> <<34>> \o v.v \o <<34>>
      [] OTHER -> <<34, 34>>

\* jsonpointer.resolve_pointer(content, path, default=None)
resolve_pointer(content, path) ==
    LET member == CASE path = "/a" -> content.a
                    [] path = "/l" -> content.l
                    [] OTHER -> Absent
    IN IF member.k = "absent" THEN JNull ELSE member

\* _get_index_keys: the rows of SEARCH_KEYS of the bin
_get_index_keys(db, _bin) ==
    SelectSeq(db.search_keys, LAMBDA r : r.bin = _bin)

\* "for v in resolve_pointer(...)" raises TypeError unless the value is a list
in_list_raises(key, content) ==
    key.type = "in_list" /\ resolve_pointer(content, key.path).k # "list"

\* the rows _set_index_item inserts for one key
index_key_rows(_bin, _id, key, content) ==
    LET v == resolve_pointer(content, key.path)
    IN IF key.type = "in_list"
       THEN [n \in 1 .. Len(v.v) |->
                [bin |-> _bin, key |-> key.key, id |-> _id,
                 value |-> json_dumps_value(JInt(v.v[n]))]]
       ELSE <<[bin |-> _bin, key |-> key.key, id |-> _id,
               value |-> json_dumps_value(v)]>>

RECURSIVE index_rows(_, _, _, _)
index_rows(_bin, _id, keys, content) ==
    IF keys = <<>> THEN <<>>
    ELSE index_key_rows(_bin, _id, Head(keys), content)
             \o index_rows(_bin, _id, Tail(keys), content)

\* _set_index_item; content is <<>> for None, else <<document>>
_set_index_item(db, _bin, _id, content) ==
    LET deleted == SelectSeq(db.search_values,
                             LAMBDA r : ~(r.bin = _bin /\ r.id = _id))
        keys == _get_index_keys(db, _bin)
    IN IF content = <<>>
       THEN [db |-> [db EXCEPT !.search_values = deleted], raised |-> FALSE]
       ELSE IF \E n \in 1 .. Len(keys) : in_list_raises(keys[n], content[1])
       THEN [db |-> db, raised |-> TRUE]
       ELSE [db |-> [db EXCEPT !.search_values =
                         deleted \o index_rows(_bin, _id, keys, content[1])],
             raised |-> FALSE]

-----------------------------------------------------------------------------
(* Items *)

\* a set_item whose statements are committed one by one: when
\* _set_index_item raises, the version row and the removal of the item's
\* index rows stay
set_item_autocommit(db, _bin, _id, content, dttm) ==
    LET work == q_set_item(db, _bin, _id, dttm, json_dumps(content))
        ix == _set_index_item(work, _bin, _id, <<content>>)
    IN IF ix.raised
       THEN [db |-> [work EXCEPT !.search_values =
                        SelectSeq(@, LAMBDA r : ~(r.bin = _bin /\ r.id = _id))],
             raised |-> TRUE]
       ELSE [db |-> ix.db, raised |-> FALSE]

\* set_item: insert the version row and recompute the index rows of the item,
\* in one transaction
set_item(db, _bin, _id, content, dttm) ==
    LET ix == _set_index_item(q_set_item(db, _bin, _id, dttm, json_dumps(content)),
                              _bin, _id, <<content>>)
    IN IF ix.raised THEN [db |-> db, raised |-> TRUE]
       ELSE [db |-> ix.db, raised |-> FALSE]

\* del_item: insert a version row with empty content and drop the index rows
del_item(db, _bin, _id, dttm) ==
    LET ix == _set_index_item(q_set_item(db, _bin, _id, dttm, EmptyText),
                              _bin, _id, <<>>)
    IN [db |-> ix.db, raised |-> FALSE]

\* get_item: fetchone() of the get_item query, decoded; NOTFOUND without a row
get_item(db, _bin, _id) ==
    LET rows == q_get_item(db, _bin, _id)
    IN IF rows = <<>>
       THEN [db |-> db, code |-> "notfound", content |-> <<>>]
       ELSE LET c == _get_content(db, _bin, rows[1])
            IN [db |-> c.db, code |-> IF c.raised THEN "error" ELSE "ok",
                content |-> c.content]

\* "order by": a stable sort of seq on keys, the integer key of each element
OrderBy(seq, keys) ==
    LET rank(n) == 1 + Cardinality({m \in 1 .. Len(seq) :
                        \/ keys[m] < keys[n]
                        \/ keys[m] = keys[n] /\ m < n})
    IN [r \in 1 .. Len(seq) |-> seq[CHOOSE n \in 1 .. Len(seq) : rank(n) = r]]

\* _queries["get_item_history"]: DTTM, STATUS and CONTENT of every row of the
\* pair, order by DTTM
q_get_item_history(db, _bin, _id) ==
    LET rows == SelectSeq(db.pakhuis, LAMBDA P : P.bin = _bin /\ P.id = _id)
        sorted == OrderBy(rows, [n \in 1 .. Len(rows) |-> rows[n].dttm])
    IN [n \in 1 .. Len(sorted) |->
           [dttm |-> sorted[n].dttm, status |-> sorted[n].status,
            content |-> sorted[n].content]]

\* get_item_history: each row with its stamp, active flag and decoded content
get_item_history(db, _bin, _id) ==
    LET rows == q_get_item_history(db, _bin, _id)
    IN IF rows = <<>>
       THEN [db |-> db, code |-> "notfound", hist |-> <<>>]
       ELSE IF \E n \in 1 .. Len(rows) : _get_content(db, _bin, rows[n]).raised
       THEN [db |-> _get_content(db, _bin, rows[1]).db,
             code |-> "error", hist |-> <<>>]
       ELSE [db |-> get_bin_config(db, _bin).db, code |-> "ok",
             hist |-> [n \in 1 .. Len(rows) |->
                          [dttm |-> rows[n].dttm, active |-> rows[n].status = "A",
                           content |-> _get_content(db, _bin, rows[n]).content]]]

-----------------------------------------------------------------------------
(* Sync list *)

NoEntry == [present |-> FALSE, dttm |-> 0, active |-> FALSE]

\* _queries["sync_list"]: the rows with the greatest DTTM of their pair, of
\* every status, of one bin or (_bin = "") of all
q_sync_list(db, _bin) ==
    SelectSeq(db.pakhuis, LAMBDA P :
        /\ _bin # "" => P.bin = _bin
        /\ P.dttm = select_max_dttm(db, P.bin, P.id))

\* sync_list: {bin: {id: {dttm, active}}}; a later row of the same pair
\* overwrites an earlier one
sync_list(db, _bin) ==
    LET rows == q_sync_list(db, _bin)
        of(b, i) == SelectSeq(rows, LAMBDA r : r.bin = b /\ r.id = i)
    IN [b \in Bins |-> [i \in Ids |->
           IF of(b, i) = <<>> THEN NoEntry
           ELSE LET row == of(b, i)[Len(of(b, i))]
                IN [present |-> TRUE, dttm |-> row.dttm,
                    active |-> row.status = "A"]]]

\* the keys of a summary, and of one bin of it
summary_bins(content) == {b \in Bins : \E i \in Ids : content[b][i].present}

summary_items(content, b) == {i \in Ids : content[b][i].present}

EmptySummary == [b \in Bins |-> [i \in Ids |-> NoEntry]]

-----------------------------------------------------------------------------
(* Cleanup *)

\* the "?" of the statement: "DTTM < ?", and "P.BIN = ?" when a bin is given
cleanup_placeholders(_bin) == IF _bin # "" THEN 2 ELSE 1

\* the parameters cleanup binds: the bin when given; dt is never bound
cleanup_params(_bin, dt) == IF _bin # "" THEN <<_bin>> ELSE <<>>

\* "P.BIN = ?" is put in the where clause of the delete itself, where the
\* alias P of the subquery is not in scope
cleanup_no_such_column(_bin) == _bin # ""

\* _queries["cleanup"]: the rows the statement keeps when it runs
q_cleanup(db, _bin, dt) ==
    SelectSeq(db.pakhuis, LAMBDA r : ~(
        /\ _bin # "" => r.bin = _bin
        /\ r.dttm < dt
        /\ \/ r.status = "I"
           \/ \E n \in 1 .. Len(db.pakhuis) :
                 /\ db.pakhuis[n].bin = r.bin
                 /\ db.pakhuis[n].id = r.id
                 /\ db.pakhuis[n].dttm > r.dttm))

\* a cleanup that removes every row of its scope older than dt
\* a cleanup that removes the tombstones older than the cutoff, current ones
\* among them, and leaves the records they superseded
cleanup_tombstones_only(db, _bin, dt) ==
    [db |-> [db EXCEPT !.pakhuis = SelectSeq(@, LAMBDA r :
                 ~((_bin # "" => r.bin = _bin) /\ r.dttm < dt
                   /\ r.content = EmptyText))],
     raised |-> FALSE,
     count |-> Len(SelectSeq(db.pakhuis, LAMBDA r :
                 (_bin # "" => r.bin = _bin) /\ r.dttm < dt
                 /\ r.content = EmptyText))]

cleanup_by_age(db, _bin, dt) ==
    [db |-> [db EXCEPT !.pakhuis = SelectSeq(@, LAMBDA r :
                 ~((_bin # "" => r.bin = _bin) /\ r.dttm < dt))],
     raised |-> FALSE,
     count |-> Len(SelectSeq(db.pakhuis, LAMBDA r :
                 (_bin # "" => r.bin = _bin) /\ r.dttm < dt))]

\* cleanup: executes the statement; sqlite3 raises OperationalError (no such
\* column) or ProgrammingError (number of bindings) before any row is touched
cleanup(db, _bin, dt) ==
    IF \/ cleanup_no_such_column(_bin)
       \/ Len(cleanup_params(_bin, dt)) # cleanup_placeholders(_bin)
    THEN [db |-> db, raised |-> TRUE, count |-> 0]
    ELSE [db |-> [db EXCEPT !.pakhuis = q_cleanup(db, _bin, dt)],
          raised |-> FALSE,
          count |-> Len(db.pakhuis) - Len(q_cleanup(db, _bin, dt))]

-----------------------------------------------------------------------------
(* Bins *)

\* a del_bin that removes the version rows only
del_bin_versions_only(db, _bin) ==
    [db EXCEPT !.pakhuis = SelectSeq(@, LAMBDA r : r.bin # _bin)]

\* del_bin: delete the bin's rows from the four tables
del_bin(db, _bin) ==
    [db EXCEPT
        !.pakhuis = SelectSeq(@, LAMBDA r : r.bin # _bin),
        !.bin_config = SelectSeq(@, LAMBDA r : r.bin # _bin),
        !.search_keys = SelectSeq(@, LAMBDA r : r.bin # _bin),
        !.search_values = SelectSeq(@, LAMBDA r : r.bin # _bin)]

\* set_bin_config: drop the cache entry and insert a row (BIN_CONFIG has no
\* key, so "insert or replace" replaces nothing)
set_bin_config(db, _bin, include_id) ==
    [db EXCEPT
        !.bin_cfg[_bin] = "",
        !.bin_config = Append(@, [bin |-> _bin,
                                  include_id |-> IF include_id THEN "Y" ELSE "N"])]

-----------------------------------------------------------------------------
(* Search indexes *)

\* _queries["get_bin_items"]: order by ID
IdOrd(i) == CASE i = "1" -> 1 [] i = "2" -> 2 [] OTHER -> 3

q_get_bin_items(db, _bin) ==
    LET rows == q_get_bin_items_unordered(db, _bin)
    IN OrderBy(rows, [n \in 1 .. Len(rows) |-> IdOrd(rows[n].id)])

\* refresh_index: recompute the index rows of every item get_bin_items
\* returns, in one transaction
RECURSIVE refresh_rows(_, _, _)
refresh_rows(db, _bin, rows) ==
    IF rows = <<>> THEN [db |-> db, raised |-> FALSE]
    ELSE IF json_loads_fails(Head(rows).content) THEN [db |-> db, raised |-> TRUE]
    ELSE LET ix == _set_index_item(db, _bin, Head(rows).id,
                                   <<json_loads(Head(rows).content)>>)
         IN IF ix.raised THEN ix ELSE refresh_rows(ix.db, _bin, Tail(rows))

refresh_index(db, _bin) ==
    LET r == refresh_rows(db, _bin, q_get_bin_items(db, _bin))
    IN IF r.raised THEN [db |-> db, raised |-> TRUE] ELSE r

\* set_index, its with block: replace the bin's rows of SEARCH_KEYS
set_index_keys(db, _bin, index) ==
    LET kept == SelectSeq(db.search_keys, LAMBDA r : r.bin # _bin)
        rows == [n \in 1 .. Len(index) |->
                    [bin |-> _bin, key |-> index[n].key, path |-> index[n].path,
                     type |-> index[n].type]]
    IN [db EXCEPT !.search_keys = kept \o rows]

\* set_index: replace the bin's rows of SEARCH_KEYS and commit, then
\* refresh_index in a transaction of its own
set_index(db, _bin, index) ==
    refresh_index(set_index_keys(db, _bin, index), _bin)

\* get_index: the bin's definition, as the sequence of its keys
get_index(db, _bin) ==
    LET rows == _get_index_keys(db, _bin)
    IN [n \in 1 .. Len(rows) |->
           [key |-> rows[n].key, path |-> rows[n].path, type |-> rows[n].type]]

-----------------------------------------------------------------------------
(* Search: class SearchWhere and PakhuisDatabase.search_items.  The SQL    *)
(* text of a criterion is kept as a tree: a leaf is one "exists(" with the *)
(* parameters bound to its placeholders and the number of ")" the text     *)
(* puts after it, a group is "(" criteria joined by and / or ")".          *)

\* SearchWhere.set_keys: ops = {k["key"]: k["type"] for k in keys}, a later
\* row of a key replacing an earlier one, then ops.update(self.base_ops)
set_keys(keys) ==
    [k \in {keys[n].key : n \in 1 .. Len(keys)} \cup {"and", "or"} |->
        IF k \in {"and", "or"} THEN k
        ELSE keys[SetMax({n \in 1 .. Len(keys) : keys[n].key = k})].type]

\* the text SQLite compares with for a bound str or int parameter
bind_text(value) == IF value.k = "int" THEN Digits(value.v[1]) ELSE value.v

WhereLeaf(key, cmp, param, closing) ==
    [kind |-> "exists", agg |-> "", items |-> <<>>, key |-> key, cmp |-> cmp,
     param |-> param, closing |-> closing]

WhereGroup(agg, items) ==
    [kind |-> "group", agg |-> agg, items |-> items, key |-> "", cmp |-> "",
     param |-> <<>>, closing |-> 1]

Compiled(where) == [raised |-> "", key |-> "", where |-> where]

Raised(exc, key) == [raised |-> exc, key |-> key, where |-> <<>>]

\* f"exists({self._base_crit} and ? = VALUE))", [key, json.dumps(value)]
op_eq(key, value) == Compiled(WhereLeaf(key, "=", json_dumps_value(value), 2))

op_lt(key, value) == Compiled(WhereLeaf(key, "<", json_dumps_value(value), 2))

op_lte(key, value) == Compiled(WhereLeaf(key, "<=", json_dumps_value(value), 2))

op_gt(key, value) == Compiled(WhereLeaf(key, ">", json_dumps_value(value), 2))

op_gte(key, value) == Compiled(WhereLeaf(key, ">=", json_dumps_value(value), 2))

\* "searching is the same as eq"
op_in_list(key, value) == op_eq(key, value)

\* f"""exists({self._base_crit} and trim(VALUE, '"') glob ?)""", [key, value]
op_glob(key, value) == Compiled(WhereLeaf(key, "glob", bind_text(value), 1))

op_like(key, value) == Compiled(WhereLeaf(key, "like", bind_text(value), 1))

\* a lookup that takes a key it does not know for an eq key
ops_lookup_default_eq(ops, k) ==
    [raised |-> "", type |-> IF k \in DOMAIN ops THEN ops[k] ELSE "eq"]

\* self.ops[k]: KeyError(k) for a key that is no index key and no connective
ops_lookup(ops, k) ==
    IF k \in DOMAIN ops THEN [raised |-> "", type |-> ops[k]]
    ELSE [raised |-> "KeyError", type |-> ""]

\* getattr(self, f"op_{self.ops[k]}")(k, v)
RECURSIVE aggregate(_, _, _, _)
op_of_key(ops, k, v) ==
    LET t == ops_lookup(ops, k)
    IN CASE t.raised # "" -> Raised(t.raised, k)
         [] t.type = "and" -> aggregate(ops, "and", k, v)
         [] t.type = "or" -> aggregate(ops, "or", k, v)
         [] t.type = "eq" -> op_eq(k, v)
         [] t.type = "lt" -> op_lt(k, v)
         [] t.type = "lte" -> op_lte(k, v)
         [] t.type = "gt" -> op_gt(k, v)
         [] t.type = "gte" -> op_gte(k, v)
         [] t.type = "in_list" -> op_in_list(k, v)
         [] t.type = "glob" -> op_glob(k, v)
         [] t.type = "like" -> op_like(k, v)
         [] OTHER -> Raised("AttributeError", "")

\* where.append(w) for the criteria compiled so far; an exception that a
\* criterion raised is the outcome of the loop
aggregate_join(agg, first, rest) ==
    IF first.raised # "" THEN first
    ELSE IF rest.raised # "" THEN rest
    ELSE Compiled(WhereGroup(agg, <<first.where>> \o rest.where.items))

\* aggregate: "for k, v in value.items()" (AttributeError unless value is a
\* dict), each criterion compiled in the order of the dict; the first
\* exception ends the loop
aggregate(ops, agg, key, value) ==
    IF value.k # "dict" THEN Raised("AttributeError", "")
    ELSE IF value.v = <<>> THEN Compiled(WhereGroup(agg, <<>>))
    ELSE aggregate_join(agg,
             op_of_key(ops, value.v[1].key, value.v[1].value),
             aggregate(ops, agg, key, JDict(Tail(value.v))))

\* process: where, params = self.op_and("", search); the text of a group is
\* never empty, so it is returned as it is
process(ops, search) == aggregate(ops, "and", "", search)

\* sqlite3 prepares the statement: OperationalError (syntax error) unless
\* every "exists(" is closed once and every group holds a criterion
RECURSIVE sql_parses(_)
sql_parses(where) ==
    IF where.kind = "exists" THEN where.closing = 1
    ELSE /\ where.items # <<>>
         /\ \A n \in 1 .. Len(where.items) : sql_parses(where.items[n])

\* trim(VALUE, '"')
RECURSIVE trim_quotes(_)
trim_quotes(text) ==
    IF text # <<>> /\ Head(text) = 34 THEN trim_quotes(Tail(text))
    ELSE IF text # <<>> /\ text[Len(text)] = 34
    THEN trim_quotes(SubSeq(text, 1, Len(text) - 1))
    ELSE text

\* glob and like on texts without letters and without "[": many is the code
\* of the wildcard for any run of characters, one that for any one character
RECURSIVE Match(_, _, _, _)
Match(text, pat, many, one) ==
    IF pat = <<>> THEN text = <<>>
    ELSE IF Head(pat) = many
    THEN \E n \in 0 .. Len(text) :
            Match(SubSeq(text, n + 1, Len(text)), Tail(pat), many, one)
    ELSE /\ text # <<>>
         /\ Head(pat) = one \/ Head(pat) = Head(text)
         /\ Match(Tail(text), Tail(pat), many, one)

\* s < t for TEXT values: bytewise
RECURSIVE TextLess(_, _)
TextLess(s, t) ==
    IF t = <<>> THEN FALSE
    ELSE IF s = <<>> THEN TRUE
    ELSE IF Head(s) # Head(t) THEN Head(s) < Head(t)
    ELSE TextLess(Tail(s), Tail(t))

\* "? <cmp> VALUE", or "trim(VALUE, '"') glob ?" and "... like ?"
compare(cmp, param, value) ==
    CASE cmp = "=" -> param = value
      [] cmp = "<" -> TextLess(param, value)
      [] cmp = "<=" -> ~TextLess(value, param)
      [] cmp = ">" -> TextLess(value, param)
      [] cmp = ">=" -> ~TextLess(param, value)
      [] cmp = "glob" -> Match(trim_quotes(value), param, 42, 63)
      [] OTHER -> Match(trim_quotes(value), param, 37, 95)

\* the criterion for the row P: exists(select 1 from SEARCH_VALUES where
\* BIN = P.BIN and ID = P.ID and KEY = ? and ...), joined by the groups
RECURSIVE where_holds(_, _, _)
where_holds(db, P, where) ==
    IF where.kind = "exists"
    THEN \E n \in 1 .. Len(db.search_values) :
            LET r == db.search_values[n]
            IN /\ r.bin = P.bin
               /\ r.id = P.id
               /\ r.key = where.key
               /\ compare(where.cmp, where.param, r.value)
    ELSE IF where.agg = "and"
    THEN \A n \in 1 .. Len(where.items) : where_holds(db, P, where.items[n])
    ELSE \E n \in 1 .. Len(where.items) : where_holds(db, P, where.items[n])

\* select P.ID, P.CONTENT ... order by 1
select_id_content(rows) ==
    LET ids == [n \in 1 .. Len(rows) |-> IdOrd(rows[n].id)]
    IN [n \in 1 .. Len(rows) |->
           [id |-> OrderBy(rows, ids)[n].id,
            content |-> OrderBy(rows, ids)[n].content]]

\* _queries["search_items"] with 1=1 replaced by the criteria: the rows with
\* the greatest DTTM of their id and STATUS 'A' that meet the criteria
q_search_items(db, _bin, where) ==
    select_id_content(SelectSeq(db.pakhuis, LAMBDA P :
        /\ P.bin = _bin
        /\ P.dttm = select_max_dttm(db, P.bin, P.id)
        /\ P.status = "A"
        /\ where_holds(db, P, where)))

\* "for row in conn.execute(q, params)": result[row["id"]] is the content of
\* the row, a later row of an id overwriting an earlier one.  Nothing is
\* written, but _get_content fills the bin config cache
search_rows(db, _bin, rows) ==
    LET idx == SelectSeq([n \in 1 .. Len(rows) |-> n],
                         LAMBDA n : \A m \in (n + 1) .. Len(rows) :
                                        rows[m].id # rows[n].id)
    IN IF \E n \in 1 .. Len(rows) : json_loads_fails(rows[n].content)
       THEN [db |-> IF json_loads_fails(rows[1].content) THEN db
                    ELSE get_bin_config(db, _bin).db,
             raised |-> "JSONDecodeError", key |-> "", items |-> <<>>]
       ELSE [db |-> IF rows = <<>> THEN db ELSE get_bin_config(db, _bin).db,
             raised |-> "", key |-> "",
             items |-> [k \in 1 .. Len(idx) |->
                           [id |-> rows[idx[k]].id,
                            content |-> _get_content(db, _bin, rows[idx[k]]).content]]]

\* conn.execute(q, params) for the criteria c that process returned
search_execute(db, _bin, c) ==
    IF c.raised # ""
    THEN [db |-> db, raised |-> c.raised, key |-> c.key, items |-> <<>>]
    ELSE IF ~sql_parses(c.where)
    THEN [db |-> db, raised |-> "OperationalError", key |-> "", items |-> <<>>]
    ELSE search_rows(db, _bin, q_search_items(db, _bin, c.where))

\* search_items: compile the search with the keys of the bin, then execute
search_items(db, _bin, search) ==
    search_execute(db, _bin,
                   process(set_keys(_get_index_keys(db, _bin)), search))

-----------------------------------------------------------------------------
(* Web service handlers (PakhuisService): the database a request leaves and *)
(* the status it is answered with.  An exception that is no HTTPException   *)
(* is answered 500.                                                         *)

\* get_bin_items: {id: content} of the get_bin_items rows, in the order of
\* the ids; a later row of the same id overwrites the content of an earlier one
get_bin_items(db, _bin) ==
    LET rows == q_get_bin_items(db, _bin)
        idx == SelectSeq([n \in 1 .. Len(rows) |-> n],
                         LAMBDA n : \A m \in (n + 1) .. Len(rows) :
                                        rows[m].id # rows[n].id)
    IN IF \E n \in 1 .. Len(rows) : json_loads_fails(rows[n].content)
       THEN [db |-> IF json_loads_fails(rows[1].content) THEN db
                    ELSE get_bin_config(db, _bin).db,
             raised |-> TRUE, items |-> <<>>]
       ELSE [db |-> IF rows = <<>> THEN db ELSE get_bin_config(db, _bin).db,
             raised |-> FALSE,
             items |-> [k \in 1 .. Len(idx) |->
                           [id |-> rows[idx[k]].id,
                            content |-> _get_content(db, _bin, rows[idx[k]]).content]]]

\* get_bin_item_ids: the ID column of the get_bin_item_ids rows, a list
get_bin_item_ids(db, _bin) ==
    [n \in 1 .. Len(q_get_bin_items(db, _bin)) |-> q_get_bin_items(db, _bin)[n].id]

\* _queries["get_bins"]: order by BIN
BinOrd(b) == CASE b = "x" -> 1 [] b = "y" -> 2 [] OTHER -> 3

\* get_bins: select distinct P.BIN of the rows with the greatest DTTM of
\* their (bin, id) and STATUS 'A', order by 1
get_bins(db) ==
    LET found == {b \in Bins : q_get_bin_items_unordered(db, b) # <<>>}
    IN [n \in 1 .. Cardinality(found) |->
           CHOOSE b \in found :
               Cardinality({c \in found : BinOrd(c) < BinOrd(b)}) = n - 1]

\* PakhuisService.sync_list: GET /_sync and GET /{_bin}/_sync
ws_sync_list(db, _bin) == sync_list(db, _bin)

\* PakhuisService.bin with full and index: GET /{_bin}?full=True&index=True
ws_bin(db, _bin) ==
    LET r == get_bin_items(db, _bin)
    IN [db |-> r.db, status |-> IF r.raised THEN 500 ELSE 200,
        items |-> r.items, index |-> get_index(db, _bin)]

\* PakhuisService.bin_index, PUT: set the definition, answer 201
ws_bin_index_put(db, _bin, index) ==
    LET r == set_index(db, _bin, index)
    IN [db |-> r.db, status |-> IF r.raised THEN 500 ELSE 201]

\* PakhuisService.doc, GET
ws_doc_get(db, _bin, _id) ==
    LET r == get_item(db, _bin, _id)
    IN [db |-> r.db,
        status |-> CASE r.code = "ok" -> 200
                     [] r.code = "notfound" -> 404
                     [] OTHER -> 500,
        content |-> r.content]

\* PakhuisService.doc, PUT or POST with an id: set_item, then get_item to show
\* the item; param is the dttm query parameter, EmptyDttm when there is none
ws_doc_put(db, _bin, _id, content, param) ==
    LET dttm == IF param # EmptyDttm THEN fromisoformat(param) ELSE param
        w == set_item(db, _bin, _id, content, dttm)
        r == get_item(w.db, _bin, _id)
    IN IF w.raised THEN [db |-> db, status |-> 500]
       ELSE [db |-> r.db, status |-> IF r.code = "ok" THEN 201 ELSE 500]

\* PakhuisService.delete_doc: 404 unless get_item returns the item, else
\* del_item with the server's clock
ws_delete_doc(db, _bin, _id, now) ==
    LET r == get_item(db, _bin, _id)
    IN CASE r.code = "notfound" -> [db |-> r.db, status |-> 404]
         [] r.code = "error" -> [db |-> r.db, status |-> 500]
         [] OTHER -> [db |-> del_item(r.db, _bin, _id, now).db, status |-> 204]

-----------------------------------------------------------------------------
(* The sync client: ServerSync.run(first, second) of src/pakhuis/sync.py,   *)
(* one step per HTTP request.  The client's response hook raise_for_status  *)
(* raises on every 4xx and 5xx answer, which ends the run.  A Python set is *)
(* iterated in no fixed order: todo is the sequence of the loops still to   *)
(* run, each the set of its iterations, taken in any order.                 *)

NoTask == [kind |-> "none", bin |-> "", id |-> "", dttm |-> 0, from |-> "", to |-> ""]

Task(kind, _bin, _id, dttm, from, to) ==
    [kind |-> kind, bin |-> _bin, id |-> _id, dttm |-> dttm, from |-> from, to |-> to]

\* auth_failed: the hook has logged "Authorization failed"
IdleRun ==
    [pc |-> "idle", first_content |-> EmptySummary, second_content |-> EmptySummary,
     todo |-> <<>>, task |-> NoTask, items |-> <<>>, bin_sync |-> EmptySummary,
     index |-> <<>>, content |-> <<>>, auth_failed |-> FALSE]

\* "for _bin in first_bins - second_bins: self.copy_bin(_bin, first, second)"
copy_bin_loop(fc, sc, from, to) ==
    {Task("copy_bin", b, "", 0, from, to) : b \in summary_bins(fc) \ summary_bins(sc)}

\* a pass that leaves out the loops over the ids one peer lacks
missing_items_loop_left_out(fc, sc, b, from, to) == {}

\* "for _id in first_items - second_items: if active: self.copy_item(...)"
missing_items_loop(fc, sc, b, from, to) ==
    {Task("copy_item", b, i, fc[b][i].dttm, from, to) :
        i \in {j \in summary_items(fc, b) \ summary_items(sc, b) : fc[b][j].active}}

\* a comparison that leaves an id alone unless both peers report it active
compare_item_both_active(fc, sc, b, i) ==
    IF ~(fc[b][i].active /\ sc[b][i].active) THEN {}
    ELSE IF fc[b][i].dttm > sc[b][i].dttm
    THEN {Task("copy_item", b, i, fc[b][i].dttm, "first", "second")}
    ELSE IF fc[b][i].dttm < sc[b][i].dttm
    THEN {Task("copy_item", b, i, sc[b][i].dttm, "second", "first")}
    ELSE {}

\* a comparison that takes the first peer's version as the newer one when the
\* two timestamps are equal
compare_item_first_wins_ties(fc, sc, b, i) ==
    IF ~(fc[b][i].active \/ sc[b][i].active) THEN {}
    ELSE IF fc[b][i].dttm >= sc[b][i].dttm
    THEN IF fc[b][i].active
         THEN {Task("copy_item", b, i, fc[b][i].dttm, "first", "second")}
         ELSE {Task("del_item", b, i, 0, "", "second")}
    ELSE IF sc[b][i].active
         THEN {Task("copy_item", b, i, sc[b][i].dttm, "second", "first")}
         ELSE {Task("del_item", b, i, 0, "", "first")}

\* the body of "for _id in first_items & second_items" for one id
compare_item(fc, sc, b, i) ==
    IF ~(fc[b][i].active \/ sc[b][i].active) THEN {}
    ELSE IF fc[b][i].dttm > sc[b][i].dttm
    THEN IF fc[b][i].active
         THEN {Task("copy_item", b, i, fc[b][i].dttm, "first", "second")}
         ELSE {Task("del_item", b, i, 0, "", "second")}
    ELSE IF fc[b][i].dttm < sc[b][i].dttm
    THEN IF sc[b][i].active
         THEN {Task("copy_item", b, i, sc[b][i].dttm, "second", "first")}
         ELSE {Task("del_item", b, i, 0, "", "first")}
    ELSE {}

compare_items_loop(fc, sc, b) ==
    UNION {compare_item(fc, sc, b, i) :
              i \in summary_items(fc, b) \cap summary_items(sc, b)}

\* the orders in which "for _bin in first_bins & second_bins" may visit the bins
Orders(S) ==
    {o \in [1 .. Cardinality(S) -> S] : \A m, n \in 1 .. Cardinality(S) :
                                            m # n => o[m] # o[n]}

RECURSIVE compare_bins(_, _, _)
compare_bins(fc, sc, order) ==
    IF order = <<>> THEN <<>>
    ELSE <<missing_items_loop(fc, sc, Head(order), "first", "second"),
           missing_items_loop(sc, fc, Head(order), "second", "first"),
           compare_items_loop(fc, sc, Head(order))>>
         \o compare_bins(fc, sc, Tail(order))

\* the loops of run for the two summaries, for one order of the common bins
plan(fc, sc, order) ==
    SelectSeq(<<copy_bin_loop(fc, sc, "first", "second"),
                copy_bin_loop(sc, fc, "second", "first")>>
              \o compare_bins(fc, sc, order),
              LAMBDA loop : loop # {})

Plans(fc, sc) ==
    {plan(fc, sc, o) : o \in Orders(summary_bins(fc) \cap summary_bins(sc))}

\* todo without iteration t of its first loop
Rest(td, t) ==
    IF Head(td) = {t} THEN Tail(td) ELSE <<Head(td) \ {t}>> \o Tail(td)

\* copy_bin, copy_item and del_item return to run's loops: their locals are gone
\* (a run that an exception ended keeps the request it failed in)
Settle(run) ==
    IF run.pc # "loop" THEN run
    ELSE [run EXCEPT !.task = NoTask, !.items = <<>>, !.bin_sync = EmptySummary,
                     !.index = <<>>, !.content = <<>>]

Written(r, p, op, _bin, _id, dttm, content, index, status) ==
    writes' = Append(writes,
        [run |-> r, peer |-> p, op |-> op, bin |-> _bin, id |-> _id, dttm |-> dttm,
         content |-> content, index |-> index, status |-> status])

\* run: GET {first}/_sync
SyncFetchFirst(r) ==
    /\ sync[r].pc = "idle"
    /\ sync' = [sync EXCEPT ![r].pc = "second",
                            ![r].first_content = ws_sync_list(DbOf("first"), "")]
    /\ UNCHANGED <<dbvars, last, writes, conn>>

\* run: GET {second}/_sync, then the loops are fixed by the two summaries
SyncFetchSecond(r) ==
    /\ sync[r].pc = "second"
    /\ \E td \in Plans(sync[r].first_content, ws_sync_list(DbOf("second"), "")) :
          sync' = [sync EXCEPT ![r].pc = "loop",
                               ![r].second_content = ws_sync_list(DbOf("second"), ""),
                               ![r].todo = td]
    /\ UNCHANGED <<dbvars, last, writes, conn>>

\* run returns when no loop is left
SyncFinish(r) ==
    /\ sync[r].pc = "loop"
    /\ sync[r].todo = <<>>
    /\ sync' = [sync EXCEPT ![r].pc = "done"]
    /\ UNCHANGED <<dbvars, last, writes, conn>>

\* copy_bin: GET {from}/{bin}?full=True&index=True
SyncCopyBinGet(r) ==
    /\ sync[r].pc = "loop"
    /\ sync[r].todo # <<>>
    /\ \E t \in Head(sync[r].todo) :
          /\ t.kind = "copy_bin"
          /\ LET a == ws_bin(DbOf(t.from), t.bin)
             IN /\ Commit(t.from, a.db)
                /\ sync' = [sync EXCEPT
                       ![r].pc = IF a.status = 200 THEN "copy_bin_sync" ELSE "aborted",
                       ![r].todo = Rest(@, t),
                       ![r].task = t,
                       ![r].items = a.items,
                       ![r].index = a.index]
    /\ UNCHANGED <<last, writes, conn>>

\* copy_bin: GET {from}/{bin}/_sync
SyncCopyBinSync(r) ==
    /\ sync[r].pc = "copy_bin_sync"
    /\ sync' = [sync EXCEPT ![r] = Settle([@ EXCEPT
           !.bin_sync = ws_sync_list(DbOf(sync[r].task.from), sync[r].task.bin),
           !.pc = IF sync[r].index # <<>> THEN "copy_bin_index"
                  ELSE IF sync[r].items # <<>> THEN "copy_bin_items"
                  ELSE "loop"])]
    /\ UNCHANGED <<dbvars, last, writes, conn>>

\* copy_bin: PUT {to}/{bin}/_index, when the source has a definition
SyncCopyBinIndex(r) ==
    /\ sync[r].pc = "copy_bin_index"
    /\ LET t == sync[r].task
           a == ws_bin_index_put(DbOf(t.to), t.bin, sync[r].index)
       IN /\ Commit(t.to, a.db)
          /\ Written(r, t.to, "put_index", t.bin, "", 0, <<>>, sync[r].index, a.status)
          /\ sync' = [sync EXCEPT ![r] = Settle([@ EXCEPT
                 !.pc = IF a.status # 201 THEN "aborted"
                        ELSE IF sync[r].items # <<>> THEN "copy_bin_items"
                        ELSE "loop"])]
    /\ UNCHANGED <<last, conn>>

\* copy_bin: PUT {to}/{bin}/{id}?dttm=bin_sync[bin][id]["dttm"] for the next
\* item; a missing key of bin_sync raises KeyError
SyncCopyBinItem(r) ==
    /\ sync[r].pc = "copy_bin_items"
    /\ LET t == sync[r].task
           item == Head(sync[r].items)
           entry == sync[r].bin_sync[t.bin][item.id]
           a == ws_doc_put(DbOf(t.to), t.bin, item.id, item.content[1], entry.dttm)
       IN IF ~entry.present
          THEN /\ sync' = [sync EXCEPT ![r].pc = "aborted"]
               /\ UNCHANGED <<dbvars, writes, conn>>
          ELSE /\ Commit(t.to, a.db)
               /\ Written(r, t.to, "put", t.bin, item.id, entry.dttm, item.content,
                          <<>>, a.status)
               /\ sync' = [sync EXCEPT ![r] = Settle([@ EXCEPT
                      !.items = Tail(@),
                      !.pc = IF a.status # 201 THEN "aborted"
                             ELSE IF Tail(sync[r].items) # <<>> THEN "copy_bin_items"
                             ELSE "loop"])]
    /\ UNCHANGED <<last, conn>>

\* copy_item: GET {from}/{bin}/{id}
SyncCopyItemGet(r) ==
    /\ sync[r].pc = "loop"
    /\ sync[r].todo # <<>>
    /\ \E t \in Head(sync[r].todo) :
          /\ t.kind = "copy_item"
          /\ LET a == ws_doc_get(DbOf(t.from), t.bin, t.id)
             IN /\ Commit(t.from, a.db)
                /\ sync' = [sync EXCEPT
                       ![r].pc = IF a.status = 200 THEN "copy_item_put" ELSE "aborted",
                       ![r].todo = Rest(@, t),
                       ![r].task = t,
                       ![r].content = a.content]
    /\ UNCHANGED <<last, writes, conn>>

\* copy_item: PUT {to}/{bin}/{id}?dttm=dttm
SyncCopyItemPut(r) ==
    /\ sync[r].pc = "copy_item_put"
    /\ LET t == sync[r].task
           a == ws_doc_put(DbOf(t.to), t.bin, t.id, sync[r].content[1], t.dttm)
       IN /\ Commit(t.to, a.db)
          /\ Written(r, t.to, "put", t.bin, t.id, t.dttm, sync[r].content, <<>>,
                     a.status)
          /\ sync' = [sync EXCEPT ![r] = Settle([@ EXCEPT
                 !.pc = IF a.status = 201 THEN "loop" ELSE "aborted"])]
    /\ UNCHANGED <<last, conn>>

\* del_item: DELETE {server}/{bin}/{id}; the server stamps the delete with its
\* own clock
SyncDelItem(r) ==
    /\ sync[r].pc = "loop"
    /\ sync[r].todo # <<>>
    /\ \E t \in Head(sync[r].todo), now \in Dttms :
          /\ t.kind = "del_item"
          /\ LET a == ws_delete_doc(DbOf(t.to), t.bin, t.id, now)
             IN /\ Commit(t.to, a.db)
                /\ Written(r, t.to, "delete", t.bin, t.id, 0, <<>>, <<>>, a.status)
                /\ sync' = [sync EXCEPT ![r] = Settle([@ EXCEPT
                       !.pc = IF a.status = 204 THEN "loop" ELSE "aborted",
                       !.todo = Rest(@, t),
                       !.task = t])]
    /\ UNCHANGED <<last, conn>>

SyncStep(r) ==
    \/ SyncFetchFirst(r)
    \/ SyncFetchSecond(r)
    \/ SyncCopyBinGet(r)
    \/ SyncCopyBinSync(r)
    \/ SyncCopyBinIndex(r)
    \/ SyncCopyBinItem(r)
    \/ SyncCopyItemGet(r)
    \/ SyncCopyItemPut(r)
    \/ SyncDelItem(r)
    \/ SyncFinish(r)

\* a hook that lets a 401 pass
raise_for_status_passing_401(status_code) ==
    IF status_code = 401 THEN "return"
    ELSE IF status_code >= 400 THEN "raise" ELSE "return"

\* raise_for_status, the response hook of the client: sys.exit(1) on a 401,
\* httpx.HTTPStatusError on another 4xx or a 5xx
raise_for_status(status_code) ==
    IF status_code = 401 THEN "exit"
    ELSE IF status_code >= 400 THEN "raise" ELSE "return"

\* the run is about to send a request
AtRequest(run) ==
    \/ run.pc \in {"idle", "second", "copy_bin_sync", "copy_bin_index",
                   "copy_bin_items", "copy_item_put"}
    \/ run.pc = "loop" /\ run.todo # <<>>

\* the next request of the run is answered 401 by the peer's authentication
\* middleware, before any handler runs
SyncUnauthorized(r) ==
    /\ AtRequest(sync[r])
    /\ sync' = [sync EXCEPT
           ![r].auth_failed = TRUE,
           ![r].pc = CASE raise_for_status(401) = "exit" -> "exit"
                       [] raise_for_status(401) = "raise" -> "aborted"
                       [] OTHER -> @]
    /\ UNCHANGED <<dbvars, last, writes, conn>>

Runs == {"run1"}

\* the clients whose calls are followed statement by statement, and the call
\* record of a client that is in no call
Clients == {"c1", "c2"}

NoConn ==
    [op |-> "none", pc |-> "", bin |-> "", id |-> "", content |-> <<>>,
     dttm |-> 0, work |-> <<>>]

InitSyncIdle ==
    /\ sync = [r \in Runs |-> IdleRun]
    /\ writes = <<>>
    /\ conn = [c \in Clients |-> NoConn]

-----------------------------------------------------------------------------
(* Calls of the database methods.  last names the last call that can write *)
(* (get and history are read in a state through get_item and              *)
(* get_item_history; as calls they only fill the bin config cache).        *)

NoCall ==
    [op |-> "none", peer |-> "", bin |-> "", id |-> "", code |-> "ok", count |-> 0]

Call(op, p, _bin, _id, code, count) ==
    [op |-> op, peer |-> p, bin |-> _bin, id |-> _id, code |-> code, count |-> count]

\* the (bin, id) pairs and documents the clients of the version store use
StorePairs == {<<"x", "1">>, <<"y", "1">>}

StoreDocs == {D1, D2}

\* the dttm arguments of set_item: a stamp, or the empty string of the web service
PutDttms == Dttms \cup {EmptyDttm}

\* cleanup cutoffs, in seconds
Cutoffs == 1 .. (adapt_datetime_iso(MaxDttm) + 1)

Put(p, _bin, _id, content, dttm) ==
    /\ Len(pakhuis[p]) < MaxRows
    /\ LET r == set_item(DbOf(p), _bin, _id, content, dttm)
       IN /\ Commit(p, r.db)
          /\ last' = Call("set_item", p, _bin, _id,
                          IF r.raised THEN "error" ELSE "ok", 0)
    /\ UNCHANGED <<syncvars, conn>>

SoftDelete(p, _bin, _id, dttm) ==
    /\ Len(pakhuis[p]) < MaxRows
    /\ LET r == del_item(DbOf(p), _bin, _id, dttm)
       IN /\ Commit(p, r.db)
          /\ last' = Call("del_item", p, _bin, _id, "ok", 0)
    /\ UNCHANGED <<syncvars, conn>>

Get(p, _bin, _id) ==
    /\ Commit(p, get_item(DbOf(p), _bin, _id).db)
    /\ UNCHANGED <<last, syncvars, conn>>

History(p, _bin, _id) ==
    /\ Commit(p, get_item_history(DbOf(p), _bin, _id).db)
    /\ UNCHANGED <<last, syncvars, conn>>

Cleanup(p, _bin, dt) ==
    /\ LET r == cleanup(DbOf(p), _bin, dt)
       IN /\ Commit(p, r.db)
          /\ last' = Call("cleanup", p, "", "",
                          IF r.raised THEN "error" ELSE "ok", r.count)
    /\ UNCHANGED <<syncvars, conn>>

\* count is the number of version rows the call removed
DeleteBin(p, _bin) ==
    /\ Commit(p, del_bin(DbOf(p), _bin))
    /\ last' = Call("del_bin", p, _bin, "", "ok",
                    Len(SelectSeq(pakhuis[p], LAMBDA r : r.bin = _bin)))
    /\ UNCHANGED <<syncvars, conn>>

InitDb ==
    /\ pakhuis = [p \in Peers |-> <<>>]
    /\ search_keys = [p \in Peers |-> <<>>]
    /\ search_values = [p \in Peers |-> <<>>]
    /\ bin_config = [p \in Peers |-> <<>>]
    /\ bin_cfg = [p \in Peers |-> [b \in Bins |-> ""]]
    /\ last = NoCall

Init ==
    /\ InitDb
    /\ InitSyncIdle

\* the version store of one instance under its clients' calls
Next ==
    \/ \E pair \in StorePairs, content \in StoreDocs, dttm \in PutDttms :
          Put("first", pair[1], pair[2], content, dttm)
    \/ \E pair \in StorePairs, dttm \in Dttms :
          SoftDelete("first", pair[1], pair[2], dttm)
    \/ \E pair \in StorePairs : Get("first", pair[1], pair[2])
    \/ \E pair \in StorePairs : History("first", pair[1], pair[2])
    \/ \E _bin \in Bins \cup {""}, dt \in Cutoffs : Cleanup("first", _bin, dt)
    \/ \E _bin \in Bins : DeleteBin("first", _bin)

Spec == Init /\ [][Next]_vars

-----------------------------------------------------------------------------
(* Two peers, their clients, and one sync pass.  The clients write through  *)
(* the web service before the pass starts; the pass then runs alone.        *)

\* most rows the two PAKHUIS tables hold together when the pass starts
MaxSyncRows == 3

SyncPairs == {<<"x", "1">>, <<"x", "2">>}

SyncDocs == {D1, D2}

SyncIndexes == {<<[key |-> "a", path |-> "/a", type |-> "eq"]>>}

\* the dttm query parameters of the clients: none, or a stamp in whole seconds
DttmParams == {EmptyDttm} \cup {adapt_datetime_iso(t) : t \in Dttms}

\* a row of STATUS 'I', which no statement of this release writes: the table
\* of a database file of an earlier release, which init_db keeps row by row
LegacyRows ==
    {[bin |-> "x", id |-> "1", dttm |-> d, status |-> "I", content |-> EmptyText] :
        d \in {adapt_datetime_iso(t) : t \in Dttms}}

NoRun == \A r \in Runs : sync[r].pc = "idle"

ClientPut(p, _bin, _id, content, param) ==
    /\ NoRun
    /\ Len(pakhuis["first"]) + Len(pakhuis["second"]) < MaxSyncRows
    /\ Commit(p, ws_doc_put(DbOf(p), _bin, _id, content, param).db)
    /\ UNCHANGED <<last, syncvars, conn>>

ClientDelete(p, _bin, _id, now) ==
    /\ NoRun
    /\ Len(pakhuis["first"]) + Len(pakhuis["second"]) < MaxSyncRows
    /\ Commit(p, ws_delete_doc(DbOf(p), _bin, _id, now).db)
    /\ UNCHANGED <<last, syncvars, conn>>

ClientPutIndex(p, _bin, index) ==
    /\ NoRun
    /\ search_keys["first"] = <<>>
    /\ search_keys["second"] = <<>>
    /\ Commit(p, ws_bin_index_put(DbOf(p), _bin, index).db)
    /\ UNCHANGED <<last, syncvars, conn>>

InitSync ==
    /\ \E p \in Peers, rows \in {<<>>} \cup {<<row>> : row \in LegacyRows} :
          pakhuis = [q \in Peers |-> IF q = p THEN rows ELSE <<>>]
    /\ search_keys = [p \in Peers |-> <<>>]
    /\ search_values = [p \in Peers |-> <<>>]
    /\ bin_config = [p \in Peers |-> <<>>]
    /\ bin_cfg = [p \in Peers |-> [b \in Bins |-> ""]]
    /\ last = NoCall
    /\ InitSyncIdle

NextSync ==
    \/ \E p \in Peers, pair \in SyncPairs, content \in SyncDocs, param \in DttmParams :
          ClientPut(p, pair[1], pair[2], content, param)
    \/ \E p \in Peers, pair \in SyncPairs, now \in Dttms :
          ClientDelete(p, pair[1], pair[2], now)
    \/ \E p \in Peers, pair \in SyncPairs, index \in SyncIndexes :
          ClientPutIndex(p, pair[1], index)
    \/ \E r \in Runs : SyncStep(r)

SpecSync == InitSync /\ [][NextSync]_vars

-----------------------------------------------------------------------------
(* The sync client of src/support/pakhuis-sync.py.  Its run is the run of   *)
(* sync.py; its copy_bin asks for no sync list of the bin, and its copy_bin *)
(* and copy_item send no dttm parameter with their PUT requests.            *)

\* copy_bin: GET {from}/{bin}?full=True&index=True
SupportCopyBinGet(r) ==
    /\ sync[r].pc = "loop"
    /\ sync[r].todo # <<>>
    /\ \E t \in Head(sync[r].todo) :
          /\ t.kind = "copy_bin"
          /\ LET a == ws_bin(DbOf(t.from), t.bin)
             IN /\ Commit(t.from, a.db)
                /\ sync' = [sync EXCEPT ![r] = Settle([@ EXCEPT
                       !.pc = IF a.status # 200 THEN "aborted"
                              ELSE IF a.index # <<>> THEN "copy_bin_index"
                              ELSE IF a.items # <<>> THEN "copy_bin_items"
                              ELSE "loop",
                       !.todo = Rest(@, t),
                       !.task = t,
                       !.items = a.items,
                       !.index = a.index])]
    /\ UNCHANGED <<last, writes, conn>>

\* copy_bin: PUT {to}/{bin}/{id} for the next item
SupportCopyBinItem(r) ==
    /\ sync[r].pc = "copy_bin_items"
    /\ LET t == sync[r].task
           item == Head(sync[r].items)
           a == ws_doc_put(DbOf(t.to), t.bin, item.id, item.content[1], EmptyDttm)
       IN /\ Commit(t.to, a.db)
          /\ Written(r, t.to, "put", t.bin, item.id, EmptyDttm, item.content,
                     <<>>, a.status)
          /\ sync' = [sync EXCEPT ![r] = Settle([@ EXCEPT
                 !.items = Tail(@),
                 !.pc = IF a.status # 201 THEN "aborted"
                        ELSE IF Tail(sync[r].items) # <<>> THEN "copy_bin_items"
                        ELSE "loop"])]
    /\ UNCHANGED <<last, conn>>

\* copy_item: PUT {to}/{bin}/{id}
SupportCopyItemPut(r) ==
    /\ sync[r].pc = "copy_item_put"
    /\ LET t == sync[r].task
           a == ws_doc_put(DbOf(t.to), t.bin, t.id, sync[r].content[1], EmptyDttm)
       IN /\ Commit(t.to, a.db)
          /\ Written(r, t.to, "put", t.bin, t.id, EmptyDttm, sync[r].content, <<>>,
                     a.status)
          /\ sync' = [sync EXCEPT ![r] = Settle([@ EXCEPT
                 !.pc = IF a.status = 201 THEN "loop" ELSE "aborted"])]
    /\ UNCHANGED <<last, conn>>

SupportStep(r) ==
    \/ SyncFetchFirst(r)
    \/ SyncFetchSecond(r)
    \/ SupportCopyBinGet(r)
    \/ SyncCopyBinIndex(r)
    \/ SupportCopyBinItem(r)
    \/ SyncCopyItemGet(r)
    \/ SupportCopyItemPut(r)
    \/ SyncDelItem(r)
    \/ SyncFinish(r)

NextSupportSync ==
    \/ \E p \in Peers, pair \in SyncPairs, content \in SyncDocs, param \in DttmParams :
          ClientPut(p, pair[1], pair[2], content, param)
    \/ \E p \in Peers, pair \in SyncPairs, now \in Dttms :
          ClientDelete(p, pair[1], pair[2], now)
    \/ \E p \in Peers, pair \in SyncPairs, index \in SyncIndexes :
          ClientPutIndex(p, pair[1], index)
    \/ \E r \in Runs : SupportStep(r)

SpecSupportSync == InitSync /\ [][NextSupportSync]_vars

-----------------------------------------------------------------------------
(* Two peers, their clients, and one sync pass during which a peer may      *)
(* stop accepting the credentials of the pass.                              *)

NextSyncAuth ==
    \/ NextSync
    \/ \E r \in Runs : SyncUnauthorized(r)

SpecSyncAuth == InitSync /\ [][NextSyncAuth]_vars

-----------------------------------------------------------------------------
(* Two peers, their clients, and two sync passes between the same peers,    *)
(* each a process of its own.  The clients write before the first pass      *)
(* starts; the passes then run side by side, request by request, with no    *)
(* other writer.                                                            *)

TwoRuns == {"run1", "run2"}

\* most rows the two PAKHUIS tables hold together when the first pass starts
MaxPassRows == 2

NoPass ==
    /\ \A r \in TwoRuns : sync[r].pc = "idle"
    /\ Len(pakhuis["first"]) + Len(pakhuis["second"]) < MaxPassRows

InitTwoPasses ==
    /\ \E p \in Peers, rows \in {<<>>} \cup {<<row>> : row \in LegacyRows} :
          pakhuis = [q \in Peers |-> IF q = p THEN rows ELSE <<>>]
    /\ search_keys = [p \in Peers |-> <<>>]
    /\ search_values = [p \in Peers |-> <<>>]
    /\ bin_config = [p \in Peers |-> <<>>]
    /\ bin_cfg = [p \in Peers |-> [b \in Bins |-> ""]]
    /\ last = NoCall
    /\ sync = [r \in TwoRuns |-> IdleRun]
    /\ writes = <<>>
    /\ conn = [c \in Clients |-> NoConn]

NextTwoPasses ==
    \/ \E p \in Peers, pair \in SyncPairs, content \in SyncDocs, param \in DttmParams :
          NoPass /\ ClientPut(p, pair[1], pair[2], content, param)
    \/ \E p \in Peers, pair \in SyncPairs, now \in Dttms :
          NoPass /\ ClientDelete(p, pair[1], pair[2], now)
    \/ \E p \in Peers, pair \in SyncPairs, index \in SyncIndexes :
          (\A r \in TwoRuns : sync[r].pc = "idle") /\ ClientPutIndex(p, pair[1], index)
    \/ \E r \in TwoRuns : SyncStep(r)

SpecTwoPasses == InitTwoPasses /\ [][NextTwoPasses]_vars

-----------------------------------------------------------------------------
(* One instance whose bin "x" has an index definition, under put and       *)
(* softDelete with explicit timestamps.                                     *)

IndexedPairs == {<<"x", "1">>, <<"x", "2">>}

\* D3 has neither member: the in_list key raises on it
IndexedDocs == {D1, D2, D3, D4}

\* the index definitions of bin "x": the rows set_index writes to SEARCH_KEYS
IndexDefinitions ==
    {<<[bin |-> "x", key |-> "a", path |-> "/a", type |-> "eq"]>>,
     <<[bin |-> "x", key |-> "a", path |-> "/a", type |-> "eq"],
       [bin |-> "x", key |-> "l", path |-> "/l", type |-> "in_list"]>>}

InitIndexed ==
    /\ pakhuis = [p \in Peers |-> <<>>]
    /\ \E keys \in IndexDefinitions :
          search_keys = [p \in Peers |-> IF p = "first" THEN keys ELSE <<>>]
    /\ search_values = [p \in Peers |-> <<>>]
    /\ bin_config = [p \in Peers |-> <<>>]
    /\ bin_cfg = [p \in Peers |-> [b \in Bins |-> ""]]
    /\ last = NoCall
    /\ InitSyncIdle

NextIndexed ==
    \/ \E pair \in IndexedPairs, content \in IndexedDocs, dttm \in PutDttms :
          Put("first", pair[1], pair[2], content, dttm)
    \/ \E pair \in IndexedPairs, dttm \in Dttms :
          SoftDelete("first", pair[1], pair[2], dttm)

SpecIndexed == InitIndexed /\ [][NextIndexed]_vars

-----------------------------------------------------------------------------
(* One instance with two bins, under the calls that configure, index, fill  *)
(* and delete a bin.                                                        *)

\* most rows the BIN_CONFIG table holds
MaxConfigRows == 2

BinPairs == {<<"x", "1">>, <<"y", "1">>}

BinDocs == {D1}

BinDttms == {0}

BinIndexes == {<<[key |-> "a", path |-> "/a", type |-> "eq"]>>}

SetBinConfig(p, _bin, include_id) ==
    /\ Len(bin_config[p]) < MaxConfigRows
    /\ Commit(p, set_bin_config(DbOf(p), _bin, include_id))
    /\ last' = Call("set_bin_config", p, _bin, "", "ok", 0)
    /\ UNCHANGED <<syncvars, conn>>

GetBinConfig(p, _bin) ==
    /\ Commit(p, get_bin_config(DbOf(p), _bin).db)
    /\ UNCHANGED <<last, syncvars, conn>>

SetIndex(p, _bin, index) ==
    /\ LET r == set_index(DbOf(p), _bin, index)
       IN /\ Commit(p, r.db)
          /\ last' = Call("set_index", p, _bin, "",
                          IF r.raised THEN "error" ELSE "ok", 0)
    /\ UNCHANGED <<syncvars, conn>>

NextBins ==
    \/ \E pair \in BinPairs, content \in BinDocs, dttm \in BinDttms :
          Put("first", pair[1], pair[2], content, dttm)
    \/ \E pair \in BinPairs : SoftDelete("first", pair[1], pair[2], MaxDttm)
    \/ \E pair \in BinPairs : Get("first", pair[1], pair[2])
    \/ \E pair \in BinPairs : History("first", pair[1], pair[2])
    \/ \E _bin \in Bins, include_id \in BOOLEAN :
          SetBinConfig("first", _bin, include_id)
    \/ \E _bin \in Bins : GetBinConfig("first", _bin)
    \/ \E _bin \in Bins, index \in BinIndexes : SetIndex("first", _bin, index)
    \/ \E _bin \in Bins : DeleteBin("first", _bin)

SpecBins == Init /\ [][NextBins]_vars

-----------------------------------------------------------------------------
(* Calls of one instance's database followed statement by statement, with  *)
(* readers in between.  Every method opens a connection of its own;        *)
(* sqlite3 starts a transaction before the first insert or delete of a     *)
(* connection and "with sqlite3.connect(...) as conn" commits when the     *)
(* block ends.  The tables in the variables are the committed ones, which  *)
(* is what every other connection reads; the rows a connection has written *)
(* and not committed are in its call record (work).  SQLite lets one       *)
(* connection write at a time: a statement that writes waits while another *)
(* connection has a transaction open.                                       *)

ConcPeer == "first"

ConcPairs == {<<"x", "1">>, <<"x", "2">>}

\* D3 has no list at /l: _set_index_item raises on it under an in_list key
ConcDocs == {D1, D3}

ConcDttms == {0, 2}

ConcIndexes ==
    {<<[key |-> "a", path |-> "/a", type |-> "eq"]>>,
     <<[key |-> "l", path |-> "/l", type |-> "in_list"]>>}

\* a connection that commits after every statement (isolation_level None)
commits_after_every_statement(pc) == TRUE

\* connect: the with block commits at its end, that is after the statement
\* that brings the call to one of these positions
commits_after(pc) == pc \in {"indexed", "keys", "refreshed"}

\* a connection has written and not committed
OpenTransaction(c) == conn[c].pc = "inserted" /\ ~commits_after("inserted")

NoOpenTransaction == \A c \in Clients : ~OpenTransaction(c)

\* what the other connections see after a statement: the rows of the
\* connection once it committed (the bin config cache is no part of it)
Visible(pc, work) ==
    IF commits_after(pc)
    THEN Commit(ConcPeer, [work EXCEPT !.bin_cfg = bin_cfg[ConcPeer]])
    ELSE UNCHANGED dbvars

InCall(c, op, pc, _bin, _id, content, dttm, work) ==
    conn' = [conn EXCEPT ![c] =
                [op |-> op, pc |-> pc, bin |-> _bin, id |-> _id,
                 content |-> content, dttm |-> dttm, work |-> work]]

\* set_item: conn.execute(set_item)
SetItemInsert(c, _bin, _id, content, dttm) ==
    /\ conn[c] = NoConn
    /\ NoOpenTransaction
    /\ Len(pakhuis[ConcPeer]) < MaxRows
    /\ LET work == q_set_item(DbOf(ConcPeer), _bin, _id, dttm, json_dumps(content))
       IN /\ InCall(c, "set_item", "inserted", _bin, _id, <<content>>, dttm, work)
          /\ Visible("inserted", work)
    /\ UNCHANGED <<last, syncvars>>

\* del_item: conn.execute(set_item) with the empty content
DelItemInsert(c, _bin, _id, dttm) ==
    /\ conn[c] = NoConn
    /\ NoOpenTransaction
    /\ Len(pakhuis[ConcPeer]) < MaxRows
    /\ LET work == q_set_item(DbOf(ConcPeer), _bin, _id, dttm, EmptyText)
       IN /\ InCall(c, "del_item", "inserted", _bin, _id, <<>>, dttm, work)
          /\ Visible("inserted", work)
    /\ UNCHANGED <<last, syncvars>>

\* set_item and del_item: _set_index_item and the end of the with block; an
\* exception rolls the transaction back
ItemIndex(c) ==
    /\ conn[c].pc = "inserted"
    /\ LET k == conn[c]
           ix == _set_index_item(k.work, k.bin, k.id, k.content)
       IN IF ix.raised THEN UNCHANGED dbvars ELSE Visible("indexed", ix.db)
    /\ conn' = [conn EXCEPT ![c] = NoConn]
    /\ UNCHANGED <<last, syncvars>>

\* set_index: its with block, the delete and the inserts of SEARCH_KEYS
SetIndexKeys(c, _bin, index) ==
    /\ conn[c] = NoConn
    /\ NoOpenTransaction
    /\ InCall(c, "set_index", "keys", _bin, "", <<>>, 0, <<>>)
    /\ Visible("keys", set_index_keys(DbOf(ConcPeer), _bin, index))
    /\ UNCHANGED <<last, syncvars>>

\* set_index: self.refresh_index(_bin), a connection and a block of its own
SetIndexRefresh(c) ==
    /\ conn[c].pc = "keys"
    /\ NoOpenTransaction
    /\ LET r == refresh_index(DbOf(ConcPeer), conn[c].bin)
       IN IF r.raised THEN UNCHANGED dbvars ELSE Visible("refreshed", r.db)
    /\ conn' = [conn EXCEPT ![c] = NoConn]
    /\ UNCHANGED <<last, syncvars>>

NextConcurrent ==
    \/ \E c \in Clients, pair \in ConcPairs, content \in ConcDocs, dttm \in ConcDttms :
          SetItemInsert(c, pair[1], pair[2], content, dttm)
    \/ \E c \in Clients, pair \in ConcPairs :
          DelItemInsert(c, pair[1], pair[2], MaxDttm)
    \/ \E c \in Clients : ItemIndex(c)
    \/ \E c \in Clients, index \in ConcIndexes : SetIndexKeys(c, "x", index)
    \/ \E c \in Clients : SetIndexRefresh(c)
    \/ \E pair \in ConcPairs : Get(ConcPeer, pair[1], pair[2])

SpecConcurrent == Init /\ [][NextConcurrent]_vars

-----------------------------------------------------------------------------
(* Cleanup between the statements of puts and softDeletes of one instance. *)

RetentionPairs == {<<"x", "1">>, <<"x", "2">>}

RetentionDocs == {D1, D2}

\* cleanup while other connections are in a call: a statement that raises
\* before it runs waits for nothing, a delete that runs is one statement and
\* waits while another connection has a transaction open
ConcurrentCleanup(_bin, dt) ==
    /\ cleanup(DbOf(ConcPeer), _bin, dt).raised \/ NoOpenTransaction
    /\ Cleanup(ConcPeer, _bin, dt)

NextRetention ==
    \/ \E c \in Clients, pair \in RetentionPairs, content \in RetentionDocs,
          dttm \in Dttms :
          SetItemInsert(c, pair[1], pair[2], content, dttm)
    \/ \E c \in Clients, pair \in RetentionPairs, dttm \in Dttms :
          DelItemInsert(c, pair[1], pair[2], dttm)
    \/ \E c \in Clients : ItemIndex(c)
    \/ \E _bin \in {"", "x"}, dt \in Cutoffs : ConcurrentCleanup(_bin, dt)

SpecRetention == Init /\ [][NextRetention]_vars

-----------------------------------------------------------------------------
(* One instance whose index definitions are set and whose indexes are      *)
(* refreshed between puts and softDeletes.                                  *)

ReindexPairs == {<<"x", "1">>, <<"x", "2">>}

ReindexDocs == {D1, D2}

\* stamps of two seconds; two puts may carry the same one
ReindexDttms == {0, 2}

ReindexDefinitions ==
    {<<[key |-> "a", path |-> "/a", type |-> "eq"]>>,
     <<[key |-> "l", path |-> "/l", type |-> "in_list"]>>}

Reindex(p, _bin) ==
    /\ LET r == refresh_index(DbOf(p), _bin)
       IN /\ Commit(p, r.db)
          /\ last' = Call("refresh_index", p, _bin, "",
                          IF r.raised THEN "error" ELSE "ok", 0)
    /\ UNCHANGED <<syncvars, conn>>

NextReindex ==
    \/ \E pair \in ReindexPairs, content \in ReindexDocs, dttm \in ReindexDttms :
          Put("first", pair[1], pair[2], content, dttm)
    \/ \E pair \in ReindexPairs : SoftDelete("first", pair[1], pair[2], MaxDttm)
    \/ Put("first", "y", "1", D1, 0)
    \/ \E _bin \in Bins, index \in ReindexDefinitions : SetIndex("first", _bin, index)
    \/ \E _bin \in Bins : Reindex("first", _bin)

SpecReindex == Init /\ [][NextReindex]_vars

-----------------------------------------------------------------------------
(* One instance whose bins are searched between puts, softDeletes and      *)
(* changes of the index definition.                                        *)

\* PakhuisService.bin_search, the answer to what search_items returned or
\* raised: 400 with the key for a KeyError, 500 for any other exception
search_response(r) ==
    IF r.raised = "KeyError"
    THEN [db |-> r.db, status |-> 400, detail |-> "Not a search key",
          key |-> r.key, items |-> <<>>]
    ELSE IF r.raised # ""
    THEN [db |-> r.db, status |-> 500, detail |-> r.raised, key |-> "",
          items |-> <<>>]
    ELSE [db |-> r.db, status |-> 200, detail |-> "", key |-> "",
          items |-> r.items]

\* PakhuisService.bin_search with the search object srch (the query
\* parameters of a GET, the body of a POST): 404 for an empty one
ws_bin_search(db, _bin, srch) ==
    IF srch.v = <<>>
    THEN [db |-> db, status |-> 404, detail |-> "Empty search", key |-> "",
          items |-> <<>>]
    ELSE search_response(search_items(db, _bin, srch))

\* most rows the PAKHUIS table holds while it is searched
MaxSearchRows == 2

SearchPairs == {<<"x", "1">>, <<"x", "2">>}

SearchDocs == {D1, D2}

\* every put carries the same stamp
SearchDttms == {0}

\* two keys that search by pattern, one key of the default type, one key of
\* an ordering type, and one key over the elements of a list
SearchDefinitions ==
    {<<[key |-> "a", path |-> "/a", type |-> "glob"],
       [key |-> "l", path |-> "/l", type |-> "like"]>>,
     <<[key |-> "a", path |-> "/a", type |-> "eq"]>>,
     <<[key |-> "a", path |-> "/a", type |-> "gt"]>>,
     <<[key |-> "l", path |-> "/l", type |-> "in_list"]>>}

SearchEntry(key, value) == [key |-> key, value |-> value]

\* "a": 1, "a": "*", "l": "[2]", "l": 2, and "zz", which no definition has
SearchLeaves ==
    {SearchEntry("a", JInt(1)), SearchEntry("a", JText(<<42>>)),
     SearchEntry("l", JText(<<91, 50, 93>>)), SearchEntry("l", JInt(2)),
     SearchEntry("zz", JInt(1))}

Connectives == {"and", "or"}

\* the dicts of one or two leaves (the keys of a dict differ)
LeafDicts ==
    {<<e>> : e \in SearchLeaves}
        \cup {m \in {<<e, f>> : e \in SearchLeaves, f \in SearchLeaves} :
                 m[1].key # m[2].key}

\* a connective over leaves, alone or after a leaf
NestedDicts ==
    {<<SearchEntry(c, JDict(m))>> : c \in Connectives, m \in LeafDicts}
        \cup {<<e, SearchEntry(c, JDict(<<f>>))>> :
                 e \in SearchLeaves, c \in Connectives, f \in SearchLeaves}

\* a connective over a dict that holds a connective
DeepDicts ==
    {<<SearchEntry(c, JDict(m))>> : c \in Connectives, m \in NestedDicts}

\* the search objects of the requests, the empty one among them
SearchTrees ==
    {JDict(m) : m \in {<<>>} \cup LeafDicts \cup NestedDicts \cup DeepDicts}

\* last keeps the answer: its status, the key it names and its items
Answered(p, _bin, r) ==
    /\ Commit(p, r.db)
    /\ last' = [op |-> "bin_search", peer |-> p, bin |-> _bin, id |-> r.key,
                code |-> r.status, count |-> Len(r.items), items |-> r.items]

Search(p, _bin, srch) ==
    /\ Answered(p, _bin, ws_bin_search(DbOf(p), _bin, srch))
    /\ UNCHANGED <<syncvars, conn>>

NextSearch ==
    \/ \E pair \in SearchPairs, content \in SearchDocs, dttm \in SearchDttms :
          /\ Len(pakhuis["first"]) < MaxSearchRows
          /\ Put("first", pair[1], pair[2], content, dttm)
    \/ \E pair \in SearchPairs :
          /\ Len(pakhuis["first"]) < MaxSearchRows
          /\ SoftDelete("first", pair[1], pair[2], MaxDttm)
    \/ \E index \in SearchDefinitions : SetIndex("first", "x", index)
    \/ \E srch \in SearchTrees : Search("first", "x", srch)

SpecSearch == Init /\ [][NextSearch]_vars

-----------------------------------------------------------------------------
(* One instance whose bins and items are listed between puts and           *)
(* softDeletes.                                                            *)

ListPairs == {<<"x", "1">>, <<"x", "2">>, <<"y", "1">>}

ListDocs == {D1, D2}

\* stamps of two seconds; two puts may carry the same one
ListDttms == {0, 2}

\* get_bins and get_bin_item_ids read and leave every variable as it is
ListBins(p) ==
    /\ get_bins(DbOf(p)) \in Seq(Bins)
    /\ UNCHANGED vars

ListIds(p, _bin) ==
    /\ get_bin_item_ids(DbOf(p), _bin) \in Seq(Ids)
    /\ UNCHANGED vars

\* get_bin_items fills the bin config cache when it decodes a row
ListItems(p, _bin) ==
    /\ Commit(p, get_bin_items(DbOf(p), _bin).db)
    /\ UNCHANGED <<last, syncvars, conn>>

\* sync_list reads and leaves every variable as it is
Summary(p, _bin) ==
    /\ summary_bins(sync_list(DbOf(p), _bin)) \subseteq Bins
    /\ UNCHANGED vars

NextList ==
    \/ \E pair \in ListPairs, content \in ListDocs, dttm \in ListDttms :
          Put("first", pair[1], pair[2], content, dttm)
    \/ \E pair \in ListPairs : SoftDelete("first", pair[1], pair[2], MaxDttm)
    \/ \E pair \in ListPairs : Get("first", pair[1], pair[2])
    \/ ListBins("first")
    \/ \E _bin \in Bins : ListIds("first", _bin)
    \/ \E _bin \in Bins : ListItems("first", _bin)
    \/ \E _bin \in Bins \cup {""} : Summary("first", _bin)

SpecList == Init /\ [][NextList]_vars

-----------------------------------------------------------------------------
(* Properties of the version store (specification Spec) *)

\* the rows of one pair, in insertion order
ItemRows(db, _bin, _id) ==
    SelectSeq(db.pakhuis, LAMBDA r : r.bin = _bin /\ r.id = _id)

\* a tombstone is a row written by del_item: it has no content
IsTombstone(r) == r.content = EmptyText

\* C1: once softDelete(bin, id) has appended the record with the greatest
\* timestamp of the pair, get(bin, id) returns NotFound; get of a pair without
\* records returns NotFound too.
C1_GetNotFoundAfterSoftDelete ==
    /\ \A pair \in StorePairs :
          ItemRows(DbOf("first"), pair[1], pair[2]) = <<>>
             => get_item(DbOf("first"), pair[1], pair[2]).code = "notfound"
    /\ (/\ last.op = "del_item"
        /\ LET rows == ItemRows(DbOf(last.peer), last.bin, last.id)
           IN \A n \in 1 .. (Len(rows) - 1) : rows[n].dttm < rows[Len(rows)].dttm)
          => get_item(DbOf(last.peer), last.bin, last.id).code = "notfound"

\* C2: softDelete(bin, id, t) appends exactly one record (bin, id, t) of status
\* Inactive and empty content, every earlier record stays, and history and the
\* sync summary report the new record with active = false.
C2_SoftDeleteAppendsInactive ==
    [][\A pair \in StorePairs, dttm \in Dttms :
          SoftDelete("first", pair[1], pair[2], dttm) =>
             LET stamp == adapt_datetime_iso(dttm)
                 after == DbOf("first")'
                 h == get_item_history(after, pair[1], pair[2])
             IN /\ after.pakhuis = Append(pakhuis["first"],
                        [bin |-> pair[1], id |-> pair[2], dttm |-> stamp,
                         status |-> "I", content |-> EmptyText])
                /\ h.code = "ok"
                /\ \E n \in 1 .. Len(h.hist) :
                      h.hist[n].dttm = stamp /\ ~h.hist[n].active
                /\ stamp = select_max_dttm(after, pair[1], pair[2])
                      => ~sync_list(after, "")[pair[1]][pair[2]].active]_vars

\* the index rows of one item
ItemEntries(db, _bin, _id) ==
    SeqToSet(SelectSeq(db.search_values, LAMBDA r : r.bin = _bin /\ r.id = _id))

\* C3: under any sequence of put and softDelete calls with explicit, also
\* out-of-order, timestamps the index entries of (bin, id) are those derived
\* from the content of the pair's current record under the bin's index
\* definition, and there are none when the current record is a tombstone.
C3_IndexFollowsCurrent ==
    \A pair \in IndexedPairs :
       LET db == DbOf("first")
           rows == ItemRows(db, pair[1], pair[2])
           top == {r \in SeqToSet(rows) :
                      \A n \in 1 .. Len(rows) : rows[n].dttm <= r.dttm}
       IN rows # <<>> =>
             \E cur \in top :
                ItemEntries(db, pair[1], pair[2]) =
                   IF IsTombstone(cur) THEN {}
                   ELSE SeqToSet(index_rows(pair[1], pair[2],
                                            _get_index_keys(db, pair[1]),
                                            json_loads(cur.content)))

\* a record is current when no record of its pair has a greater timestamp
IsCurrent(db, r) == r.dttm = select_max_dttm(db, r.bin, r.id)

\* what cleanup(scope, dt) is to remove: in its scope, older than dt, and
\* superseded or a tombstone
Eligible(db, scope, dt, r) ==
    /\ scope # "" => r.bin = scope
    /\ r.dttm < dt
    /\ ~IsCurrent(db, r) \/ IsTombstone(r) \/ r.status = "I"

\* C7: cleanup(bin?, cutoff) removes exactly the records of its scope older
\* than the cutoff that are superseded or a current tombstone, keeps every
\* other record and all index entries, and returns the number it removed.
C7_CleanupRemovesExactlyEligible ==
    [][\A scope \in Bins \cup {""}, dt \in Cutoffs :
          Cleanup("first", scope, dt) =>
             /\ pakhuis'["first"] =
                   SelectSeq(pakhuis["first"],
                             LAMBDA r : ~Eligible(DbOf("first"), scope, dt, r))
             /\ search_values' = search_values
             /\ last'.code = "ok"
             /\ last'.count = Len(pakhuis["first"]) - Len(pakhuis'["first"])]_vars

\* C8: cleanup(bin, cutoff) removes no current record, however old, and
\* removes every superseded record of the bin older than the cutoff.
C8_CleanupKeepsCurrentRemovesOld ==
    [][\A scope \in Bins, dt \in Cutoffs :
          Cleanup("first", scope, dt) =>
             \A n \in 1 .. Len(pakhuis["first"]) :
                LET r == pakhuis["first"][n]
                IN /\ IsCurrent(DbOf("first"), r)
                      => r \in SeqToSet(pakhuis'["first"])
                   /\ (r.bin = scope /\ r.dttm < dt /\ ~IsCurrent(DbOf("first"), r))
                      => r \notin SeqToSet(pakhuis'["first"])]_vars

IsPrefix(s, t) == Len(s) <= Len(t) /\ SubSeq(t, 1, Len(s)) = s

\* C9: a put and a softDelete keep every stored record and add exactly one;
\* records are removed by cleanup and deleteBin only, and no call changes a
\* record that stays.
C9_AppendOnly ==
    [][LET old == pakhuis["first"]
           new == pakhuis'["first"]
       IN /\ (\E pair \in StorePairs :
                 \/ \E content \in StoreDocs, dttm \in PutDttms :
                       Put("first", pair[1], pair[2], content, dttm)
                 \/ \E dttm \in Dttms :
                       SoftDelete("first", pair[1], pair[2], dttm))
             => (IsPrefix(old, new) /\ Len(new) = Len(old) + 1)
          /\ ~IsPrefix(old, new)
             => /\ \/ \E scope \in Bins \cup {""}, dt \in Cutoffs :
                         Cleanup("first", scope, dt)
                   \/ \E _bin \in Bins : DeleteBin("first", _bin)
                /\ new = SelectSeq(old, LAMBDA r : r \in SeqToSet(new))]_vars

\* C9 witness: a softDelete has acted on a table that held a record of the
\* same pair and one of another pair
C9_Witness ==
    /\ last.op = "del_item"
    /\ Len(pakhuis["first"]) = 3
    /\ Len(ItemRows(DbOf("first"), last.bin, last.id)) = 2
    /\ IsTombstone(pakhuis["first"][3])

-----------------------------------------------------------------------------
(* Properties of a sync pass (specification SpecSync) *)

Other(p) == IF p = "first" THEN "second" ELSE "first"

\* the records of a pair that carry its greatest timestamp
TopRows(db, _bin, _id) ==
    LET rows == ItemRows(db, _bin, _id)
    IN SelectSeq(rows, LAMBDA r : \A n \in 1 .. Len(rows) : rows[n].dttm <= r.dttm)

\* the pass has ended, by return or by an exception
Ended(run) == run.pc \in {"done", "aborted"}

\* the pass has not come to the pair yet
Pending(run, _bin, _id) ==
    \E n \in 1 .. Len(run.todo) : \E t \in run.todo[n] : t.bin = _bin /\ t.id = _id

\* the pair is in both summaries of the pass, with different timestamps
Differing(run, _bin, _id) ==
    /\ run.first_content[_bin][_id].present
    /\ run.second_content[_bin][_id].present
    /\ run.first_content[_bin][_id].dttm # run.second_content[_bin][_id].dttm

NewerPeer(run, _bin, _id) ==
    IF run.first_content[_bin][_id].dttm > run.second_content[_bin][_id].dttm
    THEN "first" ELSE "second"

\* the write requests of the pass for the pair
PairWrites(r, _bin, _id) ==
    SelectSeq(writes, LAMBDA w : w.run = r /\ w.bin = _bin /\ w.id = _id)

\* C4: for an id in both summaries with different timestamps the pass writes
\* to the peer with the older timestamp only: a put of the newer content with
\* the newer timestamp when the newer version is Active, a soft-delete when
\* the newer version is Inactive.
C4_SyncWritesOlderPeerOnly ==
    \A r \in Runs, pair \in SyncPairs :
       LET run == sync[r]
           newer == NewerPeer(run, pair[1], pair[2])
           top == TopRows(DbOf(newer), pair[1], pair[2])
           ws == PairWrites(r, pair[1], pair[2])
       IN (Ended(run) /\ Differing(run, pair[1], pair[2])) =>
             /\ \A n \in 1 .. Len(ws) : ws[n].peer = Other(newer)
             /\ (~Pending(run, pair[1], pair[2]) /\ Len(top) = 1) =>
                   IF IsTombstone(top[1]) \/ top[1].status = "I"
                   THEN \E n \in 1 .. Len(ws) : ws[n].op = "delete"
                   ELSE \E n \in 1 .. Len(ws) :
                           /\ ws[n].op = "put"
                           /\ ws[n].dttm = top[1].dttm
                           /\ ws[n].content = <<json_loads(top[1].content)>>

\* C5: when the pair is on both peers and the newer version is Active, the
\* older one Active or Inactive, then after the pass both summaries report
\* the id Active at the newer timestamp and get returns the same content on
\* both peers.
C5_SyncNewerActiveWins ==
    \A r \in Runs, pair \in SyncPairs :
       LET run == sync[r]
           newer == NewerPeer(run, pair[1], pair[2])
           stamp == IF newer = "first" THEN run.first_content[pair[1]][pair[2]].dttm
                    ELSE run.second_content[pair[1]][pair[2]].dttm
           top == TopRows(DbOf(newer), pair[1], pair[2])
           g1 == get_item(DbOf("first"), pair[1], pair[2])
           g2 == get_item(DbOf("second"), pair[1], pair[2])
       IN (/\ run.pc = "done"
           /\ Differing(run, pair[1], pair[2])
           /\ \A n \in 1 .. Len(top) :
                 ~IsTombstone(top[n]) /\ top[n].status = "A" /\ top[n].dttm = stamp)
          => /\ \A p \in Peers :
                   sync_list(DbOf(p), "")[pair[1]][pair[2]] =
                      [present |-> TRUE, dttm |-> stamp, active |-> TRUE]
             /\ g1.code = "ok"
             /\ g2.code = "ok"
             /\ g1.content = g2.content

\* C5 witness: a finished pass has put the newer Active version over a
\* tombstone of the older peer
C5_Witness ==
    \E r \in Runs, pair \in SyncPairs :
       LET run == sync[r]
           older == Other(NewerPeer(run, pair[1], pair[2]))
           rows == ItemRows(DbOf(older), pair[1], pair[2])
           ws == PairWrites(r, pair[1], pair[2])
       IN /\ run.pc = "done"
          /\ Differing(run, pair[1], pair[2])
          /\ Len(ws) = 1
          /\ ws[1].op = "put" /\ ws[1].status = 201 /\ ws[1].peer = older
          /\ Len(rows) >= 2
          /\ IsTombstone(rows[Len(rows) - 1])
          /\ get_item(DbOf("first"), pair[1], pair[2]).code = "ok"

\* the bin is in the summary of one peer only
OnlyIn(run, _bin, p) ==
    LET mine == IF p = "first" THEN run.first_content ELSE run.second_content
        theirs == IF p = "first" THEN run.second_content ELSE run.first_content
    IN _bin \in summary_bins(mine) \ summary_bins(theirs)

\* C6: when a bin is on one peer only, then after the pass the other peer
\* holds every current Active item of the bin with the same content and the
\* timestamp it has on the source, and the source's index definition, when it
\* has one, which was written before any item.
C6_SyncCopiesMissingBin ==
    \A r \in Runs, _bin \in Bins, from \in Peers :
       LET run == sync[r]
           to == Other(from)
           src == DbOf(from)
           dst == DbOf(to)
       IN (run.pc = "done" /\ OnlyIn(run, _bin, from)) =>
             /\ \A _id \in Ids :
                   get_item(src, _bin, _id).code = "ok" =>
                      /\ sync_list(dst, "")[_bin][_id] = sync_list(src, "")[_bin][_id]
                      /\ get_item(dst, _bin, _id).code = "ok"
                      /\ \E row \in SeqToSet(TopRows(src, _bin, _id)) :
                            /\ ~IsTombstone(row)
                            /\ get_item(dst, _bin, _id).content =
                                  <<json_loads(row.content)>>
             /\ get_index(src, _bin) # <<>> =>
                   /\ get_index(dst, _bin) = get_index(src, _bin)
                   /\ \E n \in 1 .. Len(writes) :
                         /\ writes[n].op = "put_index" /\ writes[n].bin = _bin
                         /\ \A m \in 1 .. Len(writes) :
                               (writes[m].op = "put" /\ writes[m].bin = _bin) => n < m

-----------------------------------------------------------------------------
(* Round trip of put and get (specification Spec) *)

\* what _get_content makes of a stored document of the pair
Shown(db, _bin, _id, content) ==
    IF get_bin_config(db, _bin).include_id
    THEN [content EXCEPT !.id = JStr(_id)]
    ELSE content

\* C11: a put(bin, id, content, t) that returns, followed at once by
\* get(bin, id), gives exactly the content that was put (with the id member
\* when the bin's include_id is set), whatever records the pair had before and
\* whatever t is, also a t equal to or older than that of an existing record.
C11_PutGetRoundTrip ==
    [][\A pair \in StorePairs, content \in StoreDocs, dttm \in PutDttms :
          (Put("first", pair[1], pair[2], content, dttm) /\ last'.code = "ok") =>
             LET after == DbOf("first")'
                 g == get_item(after, pair[1], pair[2])
             IN /\ g.code = "ok"
                /\ g.content = <<Shown(after, pair[1], pair[2], content)>>]_vars

-----------------------------------------------------------------------------
(* History (specification Spec) *)

\* what history is to report of one record
HistoryEntry(db, r) ==
    [dttm |-> r.dttm,
     active |-> r.status = "A" /\ ~IsTombstone(r),
     content |-> IF IsTombstone(r) THEN <<>>
                 ELSE <<Shown(db, r.bin, r.id, json_loads(r.content))>>]

\* C12: history(bin, id) returns every record written for the pair, Active
\* versions and tombstones alike, in non-decreasing timestamp order, each with
\* its timestamp, active flag and content, also after cleanup has run; it
\* returns NotFound exactly when the pair has no record.
C12_HistoryListsAllRecords ==
    \A pair \in StorePairs :
       LET db == DbOf("first")
           rows == ItemRows(db, pair[1], pair[2])
           h == get_item_history(db, pair[1], pair[2])
       IN /\ h.code = "notfound" <=> rows = <<>>
          /\ rows # <<>> =>
                /\ h.code = "ok"
                /\ Len(h.hist) = Len(rows)
                /\ \A n \in 1 .. (Len(h.hist) - 1) :
                      h.hist[n].dttm <= h.hist[n + 1].dttm
                /\ \E f \in Permutations(1 .. Len(rows)) :
                      \A n \in 1 .. Len(rows) :
                         h.hist[n] = HistoryEntry(db, rows[f[n]])

-----------------------------------------------------------------------------
(* Properties of bins (specification SpecBins) *)

\* the rows of a table that belong to the bin, and those that do not
OfBin(seq, _bin) == SelectSeq(seq, LAMBDA r : r.bin = _bin)

NotOfBin(seq, _bin) == SelectSeq(seq, LAMBDA r : r.bin # _bin)

\* C13: after deleteBin(b) no version record, index definition or index entry
\* of b remains, get and history of every id of b return NotFound, no
\* tombstone is written, and the records, index definitions, index entries
\* and configs of every other bin are as they were.
C13_DeleteBinRemovesBinOnly ==
    [][\A b \in Bins :
          DeleteBin("first", b) =>
             LET before == DbOf("first")
                 after == DbOf("first")'
             IN /\ OfBin(after.pakhuis, b) = <<>>
                /\ OfBin(after.search_keys, b) = <<>>
                /\ OfBin(after.search_values, b) = <<>>
                /\ \A i \in Ids :
                      /\ get_item(after, b, i).code = "notfound"
                      /\ get_item_history(after, b, i).code = "notfound"
                /\ after.pakhuis = NotOfBin(before.pakhuis, b)
                /\ after.search_keys = NotOfBin(before.search_keys, b)
                /\ after.search_values = NotOfBin(before.search_values, b)
                /\ NotOfBin(after.bin_config, b) = NotOfBin(before.bin_config, b)
                /\ \A c \in Bins \ {b} :
                      /\ after.bin_cfg[c] = before.bin_cfg[c]
                      /\ get_bin_config(after, c).include_id
                            = get_bin_config(before, c).include_id]_vars

\* C13 witness: deleteBin has removed the version rows of a bin whose config
\* had been read, while the other bin has a record, a config row, an index
\* definition and an index entry
C13_Witness ==
    /\ last.op = "del_bin"
    /\ last.count >= 1
    /\ bin_cfg["first"][last.bin] = "Y"
    /\ \E c \in Bins \ {last.bin} :
          /\ OfBin(pakhuis["first"], c) # <<>>
          /\ OfBin(bin_config["first"], c) # <<>>
          /\ OfBin(search_keys["first"], c) # <<>>
          /\ OfBin(search_values["first"], c) # <<>>

\* the stored config of a bin: what the last config write since the bin was
\* last deleted set, the default (false) when there is none
StoredIncludeId(db, _bin) ==
    LET rows == OfBin(db.bin_config, _bin)
    IN rows # <<>> /\ rows[Len(rows)].include_id = "Y"

\* C14: in every reachable state the include_id the config read returns for a
\* bin is the stored config of the bin, the default (false) when none is
\* stored, after any sequence of config reads, config writes and deleteBin; in
\* particular it is the default after deleteBin.
C14_ConfigReadIsStored ==
    \A b \in Bins :
       LET db == DbOf("first")
       IN /\ get_bin_config(db, b).include_id = StoredIncludeId(db, b)
          /\ (last.op = "del_bin" /\ last.bin = b)
                => ~get_bin_config(db, b).include_id

-----------------------------------------------------------------------------
(* Properties of calls among concurrent readers (specification             *)
(* SpecConcurrent)                                                          *)

\* C15: under any interleaving of a put or softDelete with reads, no reader
\* sees the new version record without the recomputed index entries of the
\* pair, nor the entries without the record: while the call is in progress
\* the readers' tables are as they were, and the step that ends it shows the
\* record and the entries together, or neither when the call failed.
C15_PutVisibleAtOnce ==
    [][\A c \in Clients :
          LET k == conn[c]
              before == DbOf(ConcPeer)
              whole == IF k.op = "set_item"
                       THEN set_item(before, k.bin, k.id, k.content[1], k.dttm)
                       ELSE del_item(before, k.bin, k.id, k.dttm)
          IN /\ conn'[c].pc = "inserted" =>
                   /\ pakhuis' = pakhuis
                   /\ search_values' = search_values
             /\ (k.pc = "inserted" /\ conn'[c] = NoConn) =>
                   /\ pakhuis'[ConcPeer] = whole.db.pakhuis
                   /\ search_values'[ConcPeer] = whole.db.search_values]_vars

\* C15 witness: a put on an indexed bin has inserted its row and not yet
\* committed, the pair has index entries of its previous version, and a reader
\* has read an item of the bin
C15_Witness ==
    \E c \in Clients :
       /\ conn[c].op = "set_item"
       /\ conn[c].pc = "inserted"
       /\ Len(conn[c].work.pakhuis) = Len(pakhuis[ConcPeer]) + 1
       /\ ItemEntries(DbOf(ConcPeer), conn[c].bin, conn[c].id) # {}
       /\ bin_cfg[ConcPeer][conn[c].bin] # ""

\* the index entries of every item of the bin are those of its current record
\* under the bin's index definition
EntriesFollowDefinition(db, _bin) ==
    \A _id \in Ids :
       LET rows == ItemRows(db, _bin, _id)
           top == {r \in SeqToSet(rows) :
                      \A n \in 1 .. Len(rows) : rows[n].dttm <= r.dttm}
       IN IF rows = <<>> THEN ItemEntries(db, _bin, _id) = {}
          ELSE \E cur \in top :
                  ItemEntries(db, _bin, _id) =
                     IF IsTombstone(cur) THEN {}
                     ELSE SeqToSet(index_rows(_bin, _id, _get_index_keys(db, _bin),
                                              json_loads(cur.content)))

\* C16: under any interleaving of setDefinition with searches and index-value
\* reads no reader sees the bin's new index definition together with entries
\* that were materialized under the previous one: a step that shows a reader
\* a new definition shows it the rebuilt entries too, also when the rebuild
\* fails.
C16_SetIndexVisibleAtOnce ==
    [][\A b \in Bins :
          OfBin(search_keys'[ConcPeer], b) # OfBin(search_keys[ConcPeer], b)
             => EntriesFollowDefinition(DbOf(ConcPeer)', b)]_vars

-----------------------------------------------------------------------------
(* Properties of the index (specification SpecReindex) *)

\* the index rows of one item, in the order of the table
ItemEntryRows(db, _bin, _id) ==
    SelectSeq(db.search_values, LAMBDA r : r.bin = _bin /\ r.id = _id)

\* C17: after setDefinition(bin, defs) followed by reindex(bin), every current
\* Active document of the bin has, for every key of defs, exactly the entries
\* of evaluating the key's path against its content once (one entry, or one
\* entry per list element for in_list), and the bin has no entry of a key that
\* is not in defs.
C17_ReindexMaterializesDefinition ==
    [][\A b \in Bins :
          (Reindex("first", b) /\ last.op = "set_index" /\ last.bin = b) =>
             LET after == DbOf("first")'
                 keys == _get_index_keys(after, b)
             IN /\ \A i \in Ids :
                      LET g == get_item(after, b, i)
                          want == index_rows(b, i, keys, g.content[1])
                          have == ItemEntryRows(after, b, i)
                      IN g.code = "ok" =>
                            /\ Len(have) = Len(want)
                            /\ SeqToSet(have) = SeqToSet(want)
                /\ \A n \in 1 .. Len(after.search_values) :
                      after.search_values[n].bin = b =>
                         \E m \in 1 .. Len(keys) :
                            keys[m].key = after.search_values[n].key]_vars

\* the two tables hold the same rows, each as often, in whatever order
SameRows(s, t) ==
    \A e \in SeqToSet(s) \cup SeqToSet(t) :
       Len(SelectSeq(s, LAMBDA r : r = e)) = Len(SelectSeq(t, LAMBDA r : r = e))

\* C18: reindex(bin) is idempotent: a second run leaves the index entries of
\* the first, a run on a bin whose entries are already consistent changes
\* none, and no run changes a version record, an index definition or an entry
\* of another bin.
C18_ReindexIdempotent ==
    [][\A b \in Bins :
          Reindex("first", b) =>
             LET before == DbOf("first")
                 after == DbOf("first")'
                 again == refresh_index(after, b).db
             IN /\ SameRows(again.search_values, after.search_values)
                /\ EntriesFollowDefinition(before, b)
                      => SameRows(after.search_values, before.search_values)
                /\ after.pakhuis = before.pakhuis
                /\ after.search_keys = before.search_keys
                /\ NotOfBin(after.search_values, b) = NotOfBin(before.search_values, b)
                /\ after.bin_config = before.bin_config]_vars

-----------------------------------------------------------------------------
(* Properties of search (specification SpecSearch) *)

\* the keys of a search object at every depth: the keys of the dict and, for
\* a connective, those of the dict it joins
RECURSIVE KeysOf(_)
KeysOf(srch) ==
    UNION {{srch.v[n].key} \cup
               (IF srch.v[n].key \in Connectives THEN KeysOf(srch.v[n].value)
                ELSE {}) : n \in 1 .. Len(srch.v)}

IndexKeys(db, _bin) ==
    {db.search_keys[n].key : n \in {m \in 1 .. Len(db.search_keys) :
                                        db.search_keys[m].bin = _bin}}

\* the keys of the search that are no connective and no key of the bin's
\* index definition
UnknownKeys(db, _bin, srch) ==
    {k \in KeysOf(srch) : k \notin Connectives /\ k \notin IndexKeys(db, _bin)}

\* C19: a search whose tree holds, at any depth, a key that is neither "and"
\* nor "or" nor a key of the bin's current index definition is answered 400
\* "Not a search key" naming such a key, with no items, and leaves the
\* database and the config cache as they were; so the answer the last search
\* got, when it is 400, has no items and names a key the definition lacks.
C19_UnknownSearchKeyRejected ==
    /\ \A _bin \in Bins, srch \in SearchTrees :
          UnknownKeys(DbOf("first"), _bin, srch) # {} =>
              LET r == ws_bin_search(DbOf("first"), _bin, srch)
              IN /\ r.status = 400
                 /\ r.detail = "Not a search key"
                 /\ r.key \in UnknownKeys(DbOf("first"), _bin, srch)
                 /\ r.items = <<>>
                 /\ r.db = DbOf("first")
    /\ (last.op = "bin_search" /\ last.code = 400) =>
          /\ last.items = <<>>
          /\ last.id \notin Connectives
          /\ last.id \notin IndexKeys(DbOf(last.peer), last.bin)

\* a search of bin x, which holds two rows and the definition {a: eq}, was
\* answered 400 for the key l, which another definition has
C19_Witness ==
    /\ last.op = "bin_search"
    /\ last.code = 400
    /\ last.id = "l"
    /\ Len(pakhuis["first"]) = 2
    /\ get_index(DbOf("first"), "x") = <<[key |-> "a", path |-> "/a", type |-> "eq"]>>

\* the result set of a search: its items, when the search is answered 200
ResultSet(db, _bin, srch) ==
    LET r == ws_bin_search(db, _bin, srch)
    IN {r.items[n] : n \in 1 .. Len(r.items)}

Answers(db, _bin, srch) == ws_bin_search(db, _bin, srch).status = 200

\* the items every one of the criteria of the dict m finds alone
InAll(db, _bin, m) ==
    {i \in ResultSet(db, _bin, JDict(<<m[1]>>)) :
        \A n \in 1 .. Len(m) : i \in ResultSet(db, _bin, JDict(<<m[n]>>))}

\* the items some criterion of the dict m finds alone
InSome(db, _bin, m) ==
    UNION {ResultSet(db, _bin, JDict(<<m[n]>>)) : n \in 1 .. Len(m)}

\* C20: a search of a bin all of whose keys are connectives or keys of the
\* bin's index definition is answered with a result set; the result of a
\* dict of several keys is the intersection of the results of its keys taken
\* alone, the result of {"and": m} is the intersection and that of {"or": m}
\* the union of the results of the keys of m taken alone, also where m holds
\* connectives itself.
C20_ConnectivesAreSetOperations ==
    \A srch \in SearchTrees :
        LET db == DbOf("first")
            e == srch.v[1]
        IN (srch.v # <<>> /\ UnknownKeys(db, "x", srch) = {}) =>
              /\ Answers(db, "x", srch)
              /\ ResultSet(db, "x", srch) = InAll(db, "x", srch.v)
              /\ (Len(srch.v) = 1 /\ e.key = "and") =>
                    ResultSet(db, "x", srch) = InAll(db, "x", e.value.v)
              /\ (Len(srch.v) = 1 /\ e.key = "or") =>
                    ResultSet(db, "x", srch) = InSome(db, "x", e.value.v)

\* the comparison classes of an index key
ComparisonTypes == {"eq", "lt", "lte", "gt", "gte"}

\* "the stored value is less than (at most, greater than, at least, equal
\* to) the request value", on the encoded texts
StoredMeets(type, stored, request) ==
    CASE type = "eq" -> stored = request
      [] type = "lt" -> TextLess(stored, request)
      [] type = "lte" -> ~TextLess(request, stored)
      [] type = "gt" -> TextLess(request, stored)
      [] OTHER -> ~TextLess(stored, request)

\* the ids of the bin whose get returns content and that have an entry of
\* the key whose stored value meets the comparison with the request value
IdsMeeting(db, _bin, key, value) ==
    {i \in Ids :
        /\ get_item(db, _bin, i).code = "ok"
        /\ \E n \in 1 .. Len(db.search_values) :
              LET r == db.search_values[n]
              IN /\ r.bin = _bin
                 /\ r.id = i
                 /\ r.key = key.key
                 /\ StoredMeets(key.type, r.value, json_dumps_value(value))}

\* C21: for a key whose definition has a comparison class, the search
\* {key: v} is answered with exactly the items of the bin that get returns
\* and that have an entry of the key whose stored value is less than (at
\* most, greater than, at least, equal to) v as encoded texts, each with the
\* content get returns.
C21_ComparisonSearchFindsMatching ==
    \A n \in 1 .. Len(search_keys["first"]), e \in SearchLeaves :
        LET key == search_keys["first"][n]
            db == DbOf("first")
            srch == JDict(<<e>>)
        IN (key.bin = "x" /\ key.type \in ComparisonTypes /\ e.key = key.key) =>
              /\ Answers(db, "x", srch)
              /\ {i.id : i \in ResultSet(db, "x", srch)}
                    = IdsMeeting(db, "x", key, e.value)
              /\ \A i \in ResultSet(db, "x", srch) :
                    <<i.content[1]>> = get_item(db, "x", i.id).content

\* the rows of SEARCH_VALUES of one key of one item, in rowid order
KeyEntryRows(db, _bin, _id, key) ==
    SelectSeq(db.search_values,
              LAMBDA r : r.bin = _bin /\ r.id = _id /\ r.key = key)

\* the step appended a version row with content: a put
PutStep(p) ==
    /\ Len(pakhuis'[p]) = Len(pakhuis[p]) + 1
    /\ ~IsTombstone(pakhuis'[p][Len(pakhuis'[p])])

\* after a put, the item has one entry for every element of the list at the
\* path of each in_list key of the bin, in the order of the list
PutMaterializesListEntries ==
    PutStep("first") =>
        LET row == pakhuis'["first"][Len(pakhuis'["first"])]
            doc == json_loads(row.content)
        IN \A n \in 1 .. Len(search_keys'["first"]) :
              LET key == search_keys'["first"][n]
              IN (key.bin = row.bin /\ key.type = "in_list") =>
                    LET rows == KeyEntryRows(DbOf("first")', row.bin, row.id, key.key)
                        list == resolve_pointer(doc, key.path).v
                    IN /\ Len(rows) = Len(list)
                       /\ \A k \in 1 .. Len(list) :
                             rows[k].value = json_dumps_value(JInt(list[k]))

\* the search {key: v} on an in_list key is answered with exactly the items
\* that get returns and whose list at the key's path contains v
ListSearchFindsContaining ==
    \A n \in 1 .. Len(search_keys["first"]), e \in SearchLeaves :
        LET key == search_keys["first"][n]
            db == DbOf("first")
            srch == JDict(<<e>>)
        IN (key.bin = "x" /\ key.type = "in_list" /\ e.key = key.key
                /\ e.value.k = "int") =>
              /\ Answers(db, "x", srch)
              /\ {i.id : i \in ResultSet(db, "x", srch)}
                    = {i \in Ids :
                          /\ get_item(db, "x", i).code = "ok"
                          /\ LET list == resolve_pointer(
                                     get_item(db, "x", i).content[1], key.path)
                             IN /\ list.k = "list"
                                /\ \E k \in 1 .. Len(list.v) :
                                      list.v[k] = e.value.v[1]}

\* C22: for a key of class in_list a put materializes one index entry for
\* each element of the list at the key's path, and the search {key: v}
\* returns exactly the current documents of the bin whose list contains v.
C22_InListEntriesAndSearch ==
    [][PutMaterializesListEntries /\ ListSearchFindsContaining']_vars

-----------------------------------------------------------------------------
(* Properties of the listings (specification SpecList) *)

\* the ids of the bin for which get returns content
IdsWithContent(db, _bin) == {i \in Ids : get_item(db, _bin, i).code = "ok"}

\* C23: in every state the list of ids of a bin holds exactly the ids for
\* which get returns content, each once; the items of the bin map each of
\* them to the content get returns; and the list of bins holds exactly the
\* bins whose list of ids is not empty.
C23_ListingsAgreeWithGet ==
    LET db == DbOf("first")
    IN /\ \A b \in Bins :
             /\ SeqToSet(get_bin_item_ids(db, b)) = IdsWithContent(db, b)
             /\ Len(get_bin_item_ids(db, b)) = Cardinality(IdsWithContent(db, b))
             /\ ~get_bin_items(db, b).raised
             /\ SeqToSet(get_bin_items(db, b).items)
                   = {[id |-> i, content |-> get_item(db, b, i).content] :
                          i \in IdsWithContent(db, b)}
       /\ SeqToSet(get_bins(db)) = {b \in Bins : get_bin_item_ids(db, b) # <<>>}

\* the rows of the pair that carry its greatest DTTM
MaxRowsOf(db, _bin, _id) ==
    SelectSeq(ItemRows(db, _bin, _id),
              LAMBDA r : r.dttm = select_max_dttm(db, _bin, _id))

\* C24: the summary has an entry for exactly the pairs that have a record;
\* the entry carries the greatest timestamp of the pair and the active flag of
\* the record that carries it, false for a tombstone; the summary of one bin
\* is the bin's part of the summary of all bins and has no other bin.
C24_SummaryShowsCurrentRecords ==
    LET db == DbOf("first")
        all == sync_list(db, "")
    IN /\ \A b \in Bins, i \in Ids :
             /\ all[b][i].present <=> ItemRows(db, b, i) # <<>>
             /\ all[b][i].present =>
                   /\ all[b][i].dttm = select_max_dttm(db, b, i)
                   /\ (\A n \in 1 .. Len(MaxRowsOf(db, b, i)) :
                          IsTombstone(MaxRowsOf(db, b, i)[n]))
                         => ~all[b][i].active
                   /\ (\A n \in 1 .. Len(MaxRowsOf(db, b, i)) :
                          ~IsTombstone(MaxRowsOf(db, b, i)[n]))
                         => all[b][i].active
       /\ \A b \in Bins :
             /\ sync_list(db, b)[b] = all[b]
             /\ summary_bins(sync_list(db, b)) \subseteq {b}

-----------------------------------------------------------------------------
(* Properties of a sync pass: ids on one peer, equal stamps, two tombstones *)

SummaryOf(run, p) == IF p = "first" THEN run.first_content ELSE run.second_content

\* the bin is in both summaries of the pass and the id in the summary of p only
OneSided(run, _bin, _id, p) ==
    /\ _bin \in summary_bins(SummaryOf(run, p)) \cap summary_bins(SummaryOf(run, Other(p)))
    /\ SummaryOf(run, p)[_bin][_id].present
    /\ ~SummaryOf(run, Other(p))[_bin][_id].present

\* every record with the pair's greatest timestamp was written by put
CurrentActive(db, _bin, _id) ==
    LET top == TopRows(db, _bin, _id)
    IN \A n \in 1 .. Len(top) : ~IsTombstone(top[n]) /\ top[n].status = "A"

\* every record with the pair's greatest timestamp is a tombstone
CurrentInactive(db, _bin, _id) ==
    LET top == TopRows(db, _bin, _id)
    IN \A n \in 1 .. Len(top) : IsTombstone(top[n]) \/ top[n].status = "I"

\* C25: for an id in the summary of one peer only, of a bin both summaries
\* have: when the id is Active there, a pass that returns has put its content
\* on the other peer with the timestamp it has on the source; when it is
\* Inactive there, the pass sends no write request for the pair.
C25_SyncOneSidedId ==
    \A r \in Runs, pair \in SyncPairs, from \in Peers :
       LET run == sync[r]
           stamp == SummaryOf(run, from)[pair[1]][pair[2]].dttm
           top == TopRows(DbOf(from), pair[1], pair[2])
           ws == PairWrites(r, pair[1], pair[2])
       IN OneSided(run, pair[1], pair[2], from) =>
             /\ (run.pc = "done" /\ CurrentActive(DbOf(from), pair[1], pair[2])) =>
                   /\ \E n \in 1 .. Len(ws) :
                         /\ ws[n].op = "put"
                         /\ ws[n].peer = Other(from)
                         /\ ws[n].status = 201
                         /\ ws[n].dttm = stamp
                         /\ \E m \in 1 .. Len(top) :
                               ws[n].content = <<json_loads(top[m].content)>>
                   /\ sync_list(DbOf(Other(from)), "")[pair[1]][pair[2]] =
                         [present |-> TRUE, dttm |-> stamp, active |-> TRUE]
             /\ CurrentInactive(DbOf(from), pair[1], pair[2]) => ws = <<>>

\* the pair is in both summaries of the pass with the same timestamp
EqualStamps(run, _bin, _id) ==
    /\ run.first_content[_bin][_id].present
    /\ run.second_content[_bin][_id].present
    /\ run.first_content[_bin][_id].dttm = run.second_content[_bin][_id].dttm

\* C26: for an id that both summaries of the pass report with the same
\* timestamp the pass sends no write request to either peer, whatever the two
\* active flags and the two contents are.
C26_SyncEqualStampsNoWrite ==
    \A r \in Runs, pair \in SyncPairs :
       EqualStamps(sync[r], pair[1], pair[2]) => PairWrites(r, pair[1], pair[2]) = <<>>

\* C26 witness: a pass has returned that found an id with the same timestamp
\* and different contents on the two peers
C26_Witness ==
    \E r \in Runs, pair \in SyncPairs :
       /\ sync[r].pc = "done"
       /\ EqualStamps(sync[r], pair[1], pair[2])
       /\ get_item(DbOf("first"), pair[1], pair[2]).code = "ok"
       /\ get_item(DbOf("second"), pair[1], pair[2]).code = "ok"
       /\ get_item(DbOf("first"), pair[1], pair[2]).content #
             get_item(DbOf("second"), pair[1], pair[2]).content

\* C27: for an id whose current record is Inactive on both peers, with
\* different timestamps, a pass that has come to the id has sent a soft-delete
\* to the peer with the older tombstone, and no put of a content for the pair.
C27_SyncTwoTombstonesNewerWins ==
    \A r \in Runs, pair \in SyncPairs :
       LET run == sync[r]
           ws == PairWrites(r, pair[1], pair[2])
       IN (/\ Ended(run)
           /\ ~Pending(run, pair[1], pair[2])
           /\ Differing(run, pair[1], pair[2])
           /\ \A p \in Peers : CurrentInactive(DbOf(p), pair[1], pair[2]))
          => /\ \E n \in 1 .. Len(ws) :
                   /\ ws[n].op = "delete"
                   /\ ws[n].peer = Other(NewerPeer(run, pair[1], pair[2]))
             /\ \A n \in 1 .. Len(ws) : ws[n].op # "put"

-----------------------------------------------------------------------------
(* Authorization failure during a pass (specification SpecSyncAuth) *)

\* C28: the step in which a peer answers a request of the pass with 401 ends
\* the pass (sys.exit) and changes no table and no sent write; from then on
\* the pass sends no request: its record, the tables of both peers and the
\* sent writes stay as they are.
C28_UnauthorizedEndsRun ==
    [][\A r \in Runs :
          /\ (~sync[r].auth_failed /\ sync'[r].auth_failed) =>
                /\ sync'[r].pc = "exit"
                /\ UNCHANGED <<dbvars, writes>>
          /\ sync[r].auth_failed => UNCHANGED <<sync, dbvars, writes>>]_vars

\* C28 witness: a pass has been stopped by a 401 after a write it had sent
\* was applied, with an iteration still to do
C28_Witness ==
    \E r \in Runs :
       /\ sync[r].auth_failed
       /\ sync[r].pc = "exit"
       /\ sync[r].todo # <<>>
       /\ \E n \in 1 .. Len(writes) :
             /\ writes[n].run = r /\ writes[n].op = "put" /\ writes[n].status = 201
             /\ ItemRows(DbOf(writes[n].peer), writes[n].bin, writes[n].id) # <<>>

-----------------------------------------------------------------------------
(* Two passes side by side (specification SpecTwoPasses) *)

\* the rows of peer p that the passes have appended: one for every PUT of an
\* item that was sent, one for every DELETE that was answered 204
PassAppends(p) ==
    Len(SelectSeq(writes, LAMBDA w :
           /\ w.peer = p
           /\ w.op = "put" \/ (w.op = "delete" /\ w.status = 204)))

\* the database of peer p as the clients left it, before the first pass
BeforePasses(p) ==
    [DbOf(p) EXCEPT !.pakhuis = SubSeq(@, 1, Len(@) - PassAppends(p))]

\* ServerSync.copy_item as one call
copy_item(dbs, t) ==
    IF ws_doc_get(dbs[t.from], t.bin, t.id).status # 200 THEN dbs
    ELSE [dbs EXCEPT ![t.to] =
             ws_doc_put(@, t.bin, t.id,
                        ws_doc_get(dbs[t.from], t.bin, t.id).content[1], t.dttm).db]

\* "for _id, content in bin_content['items'].items(): self.cli.put(...)"
RECURSIVE copy_bin_items(_, _, _, _)
copy_bin_items(db, _bin, items, bin_sync) ==
    IF items = <<>> THEN db
    ELSE copy_bin_items(
             ws_doc_put(db, _bin, Head(items).id, Head(items).content[1],
                        bin_sync[_bin][Head(items).id].dttm).db,
             _bin, Tail(items), bin_sync)

\* "if content: self.cli.put(f'{url}/_index', ...)"
copy_bin_index(db, _bin, index) ==
    IF index = <<>> THEN db ELSE ws_bin_index_put(db, _bin, index).db

\* ServerSync.copy_bin as one call
copy_bin(dbs, t) ==
    IF ws_bin(dbs[t.from], t.bin).status # 200 THEN dbs
    ELSE [dbs EXCEPT ![t.to] =
             copy_bin_items(
                 copy_bin_index(@, t.bin, ws_bin(dbs[t.from], t.bin).index),
                 t.bin, ws_bin(dbs[t.from], t.bin).items,
                 ws_sync_list(dbs[t.from], t.bin))]

\* one iteration of a loop of run as one call; now is the clock of the server
\* that is asked to delete
run_task(dbs, t, now) ==
    CASE t.kind = "copy_bin" -> copy_bin(dbs, t)
      [] t.kind = "copy_item" -> copy_item(dbs, t)
      [] OTHER -> [dbs EXCEPT ![t.to] = ws_delete_doc(@, t.bin, t.id, now).db]

RECURSIVE run_tasks(_, _, _)
run_tasks(dbs, tasks, now) ==
    IF tasks = {} THEN dbs
    ELSE run_tasks(run_task(dbs, CHOOSE t \in tasks : TRUE, now),
                   tasks \ {CHOOSE t \in tasks : TRUE}, now)

AllTasks(td) == UNION {td[n] : n \in 1 .. Len(td)}

\* the databases one pass alone leaves, started on dbs
run(dbs, now) ==
    run_tasks(dbs,
              AllTasks(CHOOSE td \in Plans(ws_sync_list(dbs["first"], ""),
                                           ws_sync_list(dbs["second"], "")) : TRUE),
              now)

\* the current state of a peer: its summary, and what get answers for every pair
CurrentState(db) ==
    [b \in Bins |-> [i \in Ids |->
        [entry |-> sync_list(db, "")[b][i],
         code |-> get_item(db, b, i).code,
         content |-> get_item(db, b, i).content]]]

\* the request of write w was sent before, by the other pass
Duplicate(w) ==
    \E n \in 1 .. Len(writes) :
       /\ writes[n].run # w.run
       /\ [writes[n] EXCEPT !.run = w.run, !.status = w.status] = w

\* no pass has ended with an exception
PassesWithoutError == \A r \in TwoRuns : sync[r].pc # "aborted"

\* when both passes have returned, the current state of each peer is the
\* one that one pass alone leaves
PassesLeaveSinglePassState ==
    (\A r \in TwoRuns : sync[r].pc = "done") =>
       \E now \in Dttms : \A p \in Peers :
          CurrentState(DbOf(p)) =
             CurrentState(run([q \in Peers |-> BeforePasses(q)], now)[p])

\* a write that repeats a write of the other pass leaves the current state of
\* its target as it was
DuplicateIsIdempotent ==
    \A p \in Peers :
       (/\ Len(writes') = Len(writes) + 1
        /\ writes'[Len(writes')].peer = p
        /\ Duplicate(writes'[Len(writes')]))
       => CurrentState(DbOf(p))' = CurrentState(DbOf(p))

\* C29: under every interleaving of two passes between the same peers, with
\* no other writer, no pass ends with an error, a copy or delete that repeats
\* one of the other pass leaves the current state of its target unchanged,
\* and when both passes have returned the current state (summary and content)
\* of each peer is the one a single pass leaves.
C29_TwoPassesSafe ==
    [][/\ PassesWithoutError'
       /\ DuplicateIsIdempotent
       /\ PassesLeaveSinglePassState']_vars

-----------------------------------------------------------------------------
(* Cleanup among writers (specification SpecRetention) *)

\* the record is its pair's current record and was written by put
IsCurrentActive(db, r) == IsCurrent(db, r) /\ ~IsTombstone(r) /\ r.status = "A"

-----------------------------------------------------------------------------
(* PATCH of an item (specification SpecPatch): PakhuisService.doc reads the *)
(* item, applies the JSON patch to what it read, stores the result with     *)
(* the server's clock and reads the item again to show it.  Two requests    *)
(* served by two service processes on one database file take these three    *)
(* database calls in any order.                                             *)

\* a JSON patch of one operation, add at a member of the document
JsonPatch(path, value) == [path |-> path, value |-> value]

Patches == {JsonPatch("/a", JInt(2)), JsonPatch("/l", JList(<<2>>))}

\* jsonpatch.apply_patch(content, patch, in_place=True): add sets the member
apply_patch(content, patch) ==
    IF patch.path = "/a" THEN [content EXCEPT !.a = patch.value]
    ELSE [content EXCEPT !.l = patch.value]

\* PakhuisService.doc, PATCH, as one step: 404 when there is no item, else
\* set_item of the patched content with no dttm (the clock, now), then
\* get_item to show the item
ws_doc_patch(db, _bin, _id, patch, now) ==
    LET r == get_item(db, _bin, _id)
        w == set_item(r.db, _bin, _id, apply_patch(r.content[1], patch), now)
        s == get_item(w.db, _bin, _id)
    IN CASE r.code = "notfound" -> [db |-> r.db, status |-> 404, content |-> <<>>]
         [] r.code = "error" -> [db |-> r.db, status |-> 500, content |-> <<>>]
         [] w.raised -> [db |-> r.db, status |-> 500, content |-> <<>>]
         [] OTHER -> [db |-> s.db,
                      status |-> CASE s.code = "ok" -> 200
                                   [] s.code = "notfound" -> 404
                                   [] OTHER -> 500,
                      content |-> s.content]

PatchPairs == {<<"x", "1">>, <<"x", "2">>}

MaxPatchRows == 4

\* what a PATCH request holds: content is what get_item returned to it,
\* version the number of rows of the table at that read, rowid the row its
\* set_item inserted, status and result the answer
PatchCall(pc, _bin, _id, patch, content, version, dttm, rowid, status, result) ==
    [op |-> "patch", pc |-> pc, bin |-> _bin, id |-> _id, patch |-> patch,
     content |-> content, version |-> version, dttm |-> dttm, rowid |-> rowid,
     status |-> status, result |-> result]

NoRequest == \A c \in Clients : conn[c] = NoConn

\* the clock of the server does not run backwards between two set_item calls
ClockAt(now) ==
    \A c \in Clients :
        (conn[c].op = "patch" /\ conn[c].rowid > 0) => now >= conn[c].dttm

\* content = self.db.get_item(p.bin, p.id), 404 when it is NOTFOUND
PatchRead(c, _bin, _id, patch) ==
    /\ conn[c] = NoConn
    /\ LET r == get_item(DbOf(ConcPeer), _bin, _id)
           n == Len(pakhuis[ConcPeer])
       IN /\ Commit(ConcPeer, r.db)
          /\ conn' = [conn EXCEPT ![c] =
                CASE r.code = "ok" ->
                         PatchCall("read", _bin, _id, patch, r.content, n, 0, 0, 0, <<>>)
                  [] r.code = "notfound" ->
                         PatchCall("answered", _bin, _id, patch, <<>>, n, 0, 0, 404, <<>>)
                  [] OTHER ->
                         PatchCall("answered", _bin, _id, patch, <<>>, n, 0, 0, 500, <<>>)]
    /\ UNCHANGED <<last, syncvars>>

\* jsonpatch.apply_patch(content, patch); self.db.set_item(p.bin, p.id, content)
PatchWrite(c, now) ==
    /\ conn[c].op = "patch"
    /\ conn[c].pc = "read"
    /\ ClockAt(now)
    /\ Len(pakhuis[ConcPeer]) < MaxPatchRows
    /\ LET q == conn[c]
           w == set_item(DbOf(ConcPeer), q.bin, q.id,
                         apply_patch(q.content[1], q.patch), now)
       IN /\ Commit(ConcPeer, w.db)
          /\ conn' = [conn EXCEPT ![c] =
                IF w.raised
                THEN [q EXCEPT !.pc = "answered", !.status = 500]
                ELSE [q EXCEPT !.pc = "written", !.dttm = now,
                               !.rowid = Len(w.db.pakhuis)]]
    /\ UNCHANGED <<last, syncvars>>

\* result = self.db.get_item(p.bin, p.id), answered with code 200
PatchShow(c) ==
    /\ conn[c].op = "patch"
    /\ conn[c].pc = "written"
    /\ LET q == conn[c]
           s == get_item(DbOf(ConcPeer), q.bin, q.id)
       IN /\ Commit(ConcPeer, s.db)
          /\ conn' = [conn EXCEPT ![c] =
                [q EXCEPT !.pc = "answered",
                          !.status = CASE s.code = "ok" -> 200
                                       [] s.code = "notfound" -> 404
                                       [] OTHER -> 500,
                          !.result = s.content]]
    /\ UNCHANGED <<last, syncvars>>

\* the items are written first, then the two PATCH requests are served
NextPatch ==
    \/ \E pair \in PatchPairs, content \in StoreDocs, dttm \in PutDttms :
          /\ NoRequest
          /\ Len(pakhuis[ConcPeer]) < 2
          /\ Put(ConcPeer, pair[1], pair[2], content, dttm)
    \/ \E pair \in PatchPairs, dttm \in Dttms :
          /\ NoRequest
          /\ Len(pakhuis[ConcPeer]) < 2
          /\ SoftDelete(ConcPeer, pair[1], pair[2], dttm)
    \/ \E c \in Clients, pair \in PatchPairs, patch \in Patches :
          PatchRead(c, pair[1], pair[2], patch)
    \/ \E c \in Clients, now \in Dttms : PatchWrite(c, now)
    \/ \E c \in Clients : PatchShow(c)

SpecPatch == Init /\ [][NextPatch]_vars

\* the two requests patched one item and both read it before either wrote
BothReadSameVersion ==
    /\ \A c \in Clients : conn[c].op = "patch" /\ conn[c].pc = "answered"
    /\ \A c \in Clients : conn[c].content # <<>>
    /\ conn["c1"].bin = conn["c2"].bin
    /\ conn["c1"].id = conn["c2"].id
    /\ conn["c1"].version = conn["c2"].version

\* the request whose set_item came second
LaterWriter == IF conn["c1"].rowid > conn["c2"].rowid THEN "c1" ELSE "c2"

\* C31: when two PATCH requests for one item both read the same current
\* version, neither is answered an error, the version written second is the
\* current one, and it is the version read with the second patch alone (the
\* delta of the other patch is absent)
C31_PatchLostUpdate ==
    BothReadSameVersion =>
        LET q == conn[LaterWriter]
            r == get_item(DbOf(ConcPeer), q.bin, q.id)
        IN /\ \A c \in Clients : conn[c].status = 200
           /\ r.code = "ok"
           /\ r.content = <<apply_patch(q.content[1], q.patch)>>
           /\ pakhuis[ConcPeer][q.rowid].content =
                  json_dumps(apply_patch(q.content[1], q.patch))

-----------------------------------------------------------------------------
(* One pass after another (specification SpecRerun): the clients write      *)
(* before the first pass; the first pass may be ended by an error answer of *)
(* a peer at any request; the second pass starts when the first has ended.  *)

\* a peer answers a request of the pass with a 5xx status without serving it:
\* the hook raises and the pass ends
SyncPeerError(r) ==
    /\ AtRequest(sync[r])
    /\ sync[r].pc # "idle"
    /\ raise_for_status(503) = "raise"
    /\ sync' = [sync EXCEPT ![r].pc = "aborted"]
    /\ UNCHANGED <<dbvars, last, writes, conn>>

NextRerun ==
    \/ \E p \in Peers, pair \in SyncPairs, content \in SyncDocs, param \in DttmParams :
          NoPass /\ ClientPut(p, pair[1], pair[2], content, param)
    \/ \E p \in Peers, pair \in SyncPairs, now \in Dttms :
          NoPass /\ ClientDelete(p, pair[1], pair[2], now)
    \/ \E p \in Peers, pair \in SyncPairs, index \in SyncIndexes :
          (\A r \in TwoRuns : sync[r].pc = "idle") /\ ClientPutIndex(p, pair[1], index)
    \/ SyncStep("run1")
    \/ SyncPeerError("run1")
    \/ Ended(sync["run1"]) /\ SyncStep("run2")

SpecRerun == InitTwoPasses /\ [][NextRerun]_vars

-----------------------------------------------------------------------------
(* Writers beside a pass (specification SpecWriters): two clients write,    *)
(* each once, the first before the first pass and the second before or      *)
(* while it runs; the second pass starts when the first has ended.          *)

\* what a client has been answered: its request, the peer, the status, and
\* whether a pass was running when the request was served
Served(c, op, p, _bin, _id, content, dttm, status) ==
    InCall(c, op, "answered", _bin, _id, content, dttm,
           [peer |-> p, status |-> status, in_pass |-> sync["run1"].pc # "idle"])

\* the first pass has not ended; client c1 writes before it starts
MayWrite(c) ==
    /\ conn[c] = NoConn
    /\ ~Ended(sync["run1"])
    /\ sync["run2"].pc = "idle"
    /\ c = "c1" => sync["run1"].pc = "idle"

\* PUT {peer}/{bin}/{id}[?dttm=param] of a client
WebPut(c, p, _bin, _id, content, param) ==
    /\ MayWrite(c)
    /\ LET a == ws_doc_put(DbOf(p), _bin, _id, content, param)
       IN /\ Commit(p, a.db)
          /\ Served(c, "PUT", p, _bin, _id, <<content>>, param, a.status)
    /\ UNCHANGED <<last, syncvars>>

\* DELETE {peer}/{bin}/{id} of a client, stamped by the clock of the server
WebDelete(c, p, _bin, _id, now) ==
    /\ MayWrite(c)
    /\ LET a == ws_delete_doc(DbOf(p), _bin, _id, now)
       IN /\ Commit(p, a.db)
          /\ Served(c, "DELETE", p, _bin, _id, <<>>, adapt_datetime_iso(now),
                    a.status)
    /\ UNCHANGED <<last, syncvars>>

NextWriters ==
    \/ \E c \in Clients, p \in Peers, pair \in SyncPairs, content \in SyncDocs,
          param \in DttmParams :
          WebPut(c, p, pair[1], pair[2], content, param)
    \/ \E c \in Clients, p \in Peers, pair \in SyncPairs, now \in Dttms :
          WebDelete(c, p, pair[1], pair[2], now)
    \/ \E index \in SyncIndexes :
          (\A r \in TwoRuns : sync[r].pc = "idle") /\ ClientPutIndex("first", "x", index)
    \/ SyncStep("run1")
    \/ Ended(sync["run1"]) /\ SyncStep("run2")

SpecWriters == InitTwoPasses /\ [][NextWriters]_vars

-----------------------------------------------------------------------------
(* Last writer wins (specification SpecWriters) *)

\* a write to the pair that a client was answered without error, or the
\* record of the pair the peers started with
PutWrite(c, content, dttm) == [by |-> c, active |-> TRUE, content |-> content, dttm |-> dttm]

DeleteWrite(c, dttm) == [by |-> c, active |-> FALSE, content |-> <<>>, dttm |-> dttm]

WritesTo(_bin, _id) ==
    {PutWrite(c, conn[c].content, conn[c].dttm) :
        c \in {d \in Clients : /\ conn[d].op = "PUT"
                               /\ conn[d].bin = _bin /\ conn[d].id = _id}}
    \cup
    {DeleteWrite(c, conn[c].dttm) :
        c \in {d \in Clients : /\ conn[d].op = "DELETE"
                               /\ conn[d].work.status = 204
                               /\ conn[d].bin = _bin /\ conn[d].id = _id}}
    \cup
    {DeleteWrite("", row.dttm) :
        row \in {l \in LegacyRows : /\ l.bin = _bin /\ l.id = _id
                                    /\ \E p \in Peers : pakhuis[p] # <<>>
                                                        /\ pakhuis[p][1] = l}}

\* the write of the pair with the one greatest timestamp, if there is one
LastWriters(_bin, _id) ==
    {w \in WritesTo(_bin, _id) :
        \A v \in WritesTo(_bin, _id) : v # w => v.dttm < w.dttm}

\* every PUT of the pair carried its timestamp
Stamped(_bin, _id) == \A w \in WritesTo(_bin, _id) : w.dttm # EmptyDttm

\* C32: when the clients have stopped writing and a pass that started after
\* their last write has returned, get of a pair on either peer answers the
\* content of the write with the greatest timestamp among all writes to the
\* pair on either peer, and NotFound when that write is a soft-delete, also
\* when one of the writes was served while the earlier pass was running
C32_LastWriterWins ==
    sync["run2"].pc = "done" =>
       \A pair \in SyncPairs : \A w \in LastWriters(pair[1], pair[2]) :
          Stamped(pair[1], pair[2]) =>
             \A p \in Peers :
                LET r == get_item(DbOf(p), pair[1], pair[2])
                IN IF w.active THEN r.code = "ok" /\ r.content = w.content
                   ELSE r.code = "notfound"

-----------------------------------------------------------------------------
(* What a pass writes (specification SpecWriters) *)

\* the peer a write of a pass took its content from
SourceOf(w) == Other(w.peer)

\* the source holds a record of the pair with this content and timestamp
IsSourceVersion(w) ==
    \E n \in 1 .. Len(pakhuis[SourceOf(w)]) :
       LET row == pakhuis[SourceOf(w)][n]
       IN /\ row.bin = w.bin
          /\ row.id = w.id
          /\ row.dttm = w.dttm
          /\ row.content = json_dumps(w.content[1])

\* C38: every PUT of an item that a pass sends to its target carries a
\* content and a timestamp that are together one version record of the
\* source, also when a client writes the source between the requests of the
\* pass
C38_SyncWritesSourceVersions ==
    [][(/\ Len(writes') = Len(writes) + 1
        /\ writes'[Len(writes')].op = "put")
       => IsSourceVersion(writes'[Len(writes')])]_vars

-----------------------------------------------------------------------------
(* A pass that was cut short, and the pass after it (specification          *)
(* SpecRerun)                                                               *)

\* the first pass was ended by an error answer and the second has returned
RerunReturned == sync["run1"].pc = "aborted" /\ sync["run2"].pc = "done"

\* the peers are in the current state one pass alone leaves when it starts
\* from what the clients wrote
SinglePassState ==
    \E now \in Dttms : \A p \in Peers :
       CurrentState(DbOf(p)) =
          CurrentState(run([q \in Peers |-> BeforePasses(q)], now)[p])

\* what the passes have stored is still there
PassWritesKept ==
    \A n \in 1 .. Len(writes) :
       (writes[n].op = "put" /\ writes[n].status = 201) =>
          \E m \in 1 .. Len(pakhuis[writes[n].peer]) :
             LET row == pakhuis[writes[n].peer][m]
             IN /\ row.bin = writes[n].bin
                /\ row.id = writes[n].id
                /\ row.dttm = writes[n].dttm
                /\ row.content = json_dumps(writes[n].content[1])

-----------------------------------------------------------------------------
(* A second pass after a complete one (specification SpecRerun) *)

\* both passes have returned without an error
BothReturned == \A r \in TwoRuns : sync[r].pc = "done"

\* the requests of pass r that write: PUT of an item, DELETE, PUT of an index
WritesOf(r) == SelectSeq(writes, LAMBDA w : w.run = r)

\* C36: when a pass has returned and a second pass follows with no writer
\* between or beside them, the second pass sends no PUT of an item, no
\* DELETE and no PUT of an index definition to either peer, also when the
\* first pass propagated a delete and when a bin holds no Active item
C36_SecondPassWritesNothing ==
    BothReturned => WritesOf("run2") = <<>>

-----------------------------------------------------------------------------
(* A put that fails in the index (specification SpecIndexed) *)

\* the step is a set_item call that raised
PutRaised == last'.op = "set_item" /\ last'.code = "error"

\* C34: a put that raises while the index entries of the item are computed
\* (the bin has an in_list key and the value at its path is no list) stores
\* no version record and no index entry: the records and the index are
\* exactly as before the call, the earlier index entries of the pair among
\* them
C34_FailedPutStoresNothing ==
    [][PutRaised =>
          /\ pakhuis' = pakhuis
          /\ search_values' = search_values
          /\ search_keys' = search_keys]_vars

\* C34 witness: a put of a pair that has a record and index entries under
\* the in_list key has raised
C34_Witness ==
    /\ last.op = "set_item"
    /\ last.code = "error"
    /\ ItemRows(DbOf(last.peer), last.bin, last.id) # <<>>
    /\ \E n \in 1 .. Len(search_values[last.peer]) :
          /\ search_values[last.peer][n].bin = last.bin
          /\ search_values[last.peer][n].id = last.id
          /\ search_values[last.peer][n].key = "l"

-----------------------------------------------------------------------------
(* Cleanup and what the readers see (specification SpecCleanup): one        *)
(* instance with an index definition, started empty or with the records of  *)
(* an earlier release, under put, softDelete and cleanup.                   *)

\* records of an earlier release for x/1: an Inactive record alone, after an
\* older Active record, or beside an Active record of the same second
LegacyHistories ==
    {<<>>}
    \cup {<<[bin |-> "x", id |-> "1", dttm |-> 1, status |-> "I",
             content |-> EmptyText]>>}
    \cup {<<[bin |-> "x", id |-> "1", dttm |-> 0, status |-> "A",
             content |-> json_dumps(D1)],
            [bin |-> "x", id |-> "1", dttm |-> d, status |-> "I",
             content |-> EmptyText]>> : d \in {0, 1}}

InitCleanup ==
    /\ \E rows \in LegacyHistories :
          /\ pakhuis = [p \in Peers |-> IF p = "first" THEN rows ELSE <<>>]
          /\ \E keys \in IndexDefinitions :
                /\ search_keys = [p \in Peers |-> IF p = "first" THEN keys ELSE <<>>]
                /\ search_values =
                      [p \in Peers |->
                          IF p = "first" /\ rows # <<>> /\ rows[1].status = "A"
                          THEN index_rows("x", "1", keys, D1) ELSE <<>>]
    /\ bin_config = [p \in Peers |-> <<>>]
    /\ bin_cfg = [p \in Peers |-> [b \in Bins |-> ""]]
    /\ last = NoCall
    /\ InitSyncIdle

NextCleanup ==
    \/ \E pair \in IndexedPairs, content \in StoreDocs, dttm \in PutDttms :
          Put("first", pair[1], pair[2], content, dttm)
    \/ \E pair \in IndexedPairs, dttm \in Dttms :
          SoftDelete("first", pair[1], pair[2], dttm)
    \/ \E _bin \in Bins \cup {""}, dt \in Cutoffs : Cleanup("first", _bin, dt)

SpecCleanup == InitCleanup /\ [][NextCleanup]_vars

\* the search requests of the readers
CleanupSearches ==
    {JDict(<<SearchEntry("a", JInt(1))>>), JDict(<<SearchEntry("a", JInt(2))>>),
     JDict(<<SearchEntry("l", JInt(2))>>)}

\* what the readers are answered: get of every pair, the id listing and the
\* item listing of every bin, and the searches
ReaderAnswers(db) ==
    [get |-> [b \in Bins |-> [i \in Ids |->
                 [code |-> get_item(db, b, i).code,
                  content |-> get_item(db, b, i).content]]],
     ids |-> [b \in Bins |-> get_bin_item_ids(db, b)],
     items |-> [b \in Bins |-> [raised |-> get_bin_items(db, b).raised,
                                items |-> get_bin_items(db, b).items]],
     search |-> [b \in Bins |-> [srch \in CleanupSearches |->
                    [status |-> ws_bin_search(db, b, srch).status,
                     items |-> ws_bin_search(db, b, srch).items]]]]

-----------------------------------------------------------------------------
(* The item requests of the web service as its clients see them             *)
(* (specification SpecRequests): one instance with an index definition,     *)
(* started empty or with the records of an earlier release, under PUT and   *)
(* DELETE requests.  last holds the request served last and its answer.     *)

\* the answer to a request: count is the HTTP status
Response(op, p, _bin, _id, status) ==
    Call(op, p, _bin, _id, IF status >= 400 THEN "error" ELSE "ok", status)

\* PUT or POST {bin}/{id}[?dttm=param]
DocPut(p, _bin, _id, content, param) ==
    /\ Len(pakhuis[p]) < MaxRows
    /\ LET a == ws_doc_put(DbOf(p), _bin, _id, content, param)
       IN /\ Commit(p, a.db)
          /\ last' = Response("PUT", p, _bin, _id, a.status)
    /\ UNCHANGED <<syncvars, conn>>

\* DELETE {bin}/{id}, stamped by the clock of the server
DeleteDoc(p, _bin, _id, now) ==
    /\ Len(pakhuis[p]) < MaxRows
    /\ LET a == ws_delete_doc(DbOf(p), _bin, _id, now)
       IN /\ Commit(p, a.db)
          /\ last' = Response("DELETE", p, _bin, _id, a.status)
    /\ UNCHANGED <<syncvars, conn>>

NextRequests ==
    \/ \E pair \in IndexedPairs, content \in IndexedDocs, param \in DttmParams :
          DocPut("first", pair[1], pair[2], content, param)
    \/ \E pair \in IndexedPairs, now \in Dttms :
          DeleteDoc("first", pair[1], pair[2], now)

SpecRequests == InitCleanup /\ [][NextRequests]_vars

\* the pair was never written, or every record with its greatest timestamp
\* is a tombstone
NoActiveVersion(db, _bin, _id) ==
    ItemRows(db, _bin, _id) = <<>> \/ CurrentInactive(db, _bin, _id)

\* C39: a DELETE for a pair with no current Active version (never written, or
\* its current record a tombstone) is answered 404 and changes neither the
\* version store nor the index, and so not the summary; and a DELETE that
\* follows an accepted DELETE of the same pair is answered so
C39_DeleteWithoutActiveVersion ==
    \A pair \in IndexedPairs, now \in Dttms :
       LET db == DbOf("first")
           a == ws_delete_doc(db, pair[1], pair[2], now)
       IN (\/ NoActiveVersion(db, pair[1], pair[2])
           \/ last.op = "DELETE" /\ last.count = 204
                /\ last.bin = pair[1] /\ last.id = pair[2])
          => a.status = 404 /\ a.db = db

\* C40: a PUT or POST of an item that is answered with an error status has
\* changed neither the version store nor the index, whatever its timestamp
\* parameter is relative to the pair's current record (older, equal or newer;
\* the current record Active or a tombstone)
C40_FailedPutChangesNothing ==
    [][(last'.op = "PUT" /\ last'.code = "error")
          => /\ pakhuis' = pakhuis
             /\ search_keys' = search_keys
             /\ search_values' = search_values]_vars

-----------------------------------------------------------------------------
(* A deleted document under cleanup runs and sync passes (specification     *)
(* SpecDeleted): two peers, started empty or with a record of an earlier    *)
(* release; the clients send PUT and DELETE requests while no pass runs,    *)
(* before the first pass or between the two; a cleanup request may reach    *)
(* either peer at any moment.  last is the client write served last.        *)

\* PakhuisService.cleanup with the days parameter: the cutoff is a date and
\* the answer is 200 with the count unless cleanup raises
ws_cleanup(db, _bin, dt) ==
    LET r == cleanup(db, _bin, dt)
    IN [db |-> r.db, status |-> IF r.raised THEN 500 ELSE 200, count |-> r.count]

\* no pass is at work: the first has not started, or it has ended and the
\* second has not started
BetweenPasses ==
    /\ sync["run2"].pc = "idle"
    /\ sync["run1"].pc = "idle" \/ Ended(sync["run1"])
    /\ Len(pakhuis["first"]) + Len(pakhuis["second"]) < MaxSyncRows

\* GET {peer}/_cleanup, as the sync program sends it after a pass, or
\* {peer}/{bin}/_cleanup
WebCleanup(p, _bin, dt) ==
    /\ Commit(p, ws_cleanup(DbOf(p), _bin, dt).db)
    /\ UNCHANGED <<last, syncvars, conn>>

NextDeleted ==
    \/ \E p \in Peers, pair \in SyncPairs, content \in SyncDocs, param \in DttmParams :
          BetweenPasses /\ DocPut(p, pair[1], pair[2], content, param)
    \/ \E p \in Peers, pair \in SyncPairs, now \in Dttms :
          BetweenPasses /\ DeleteDoc(p, pair[1], pair[2], now)
    \/ \E index \in SyncIndexes :
          (\A r \in TwoRuns : sync[r].pc = "idle") /\ ClientPutIndex("first", "x", index)
    \/ \E p \in Peers, dt \in Cutoffs : WebCleanup(p, "", dt)
    \/ SyncStep("run1")
    \/ Ended(sync["run1"]) /\ SyncStep("run2")

SpecDeleted == InitTwoPasses /\ [][NextDeleted]_vars

\* C37: while the client write served last is an accepted soft-delete, get of
\* the deleted pair on the peer that served it does not return the document,
\* whatever cleanup runs and sync passes have taken place since
C37_DeletedNotReturned ==
    (last.op = "DELETE" /\ last.count = 204)
       => get_item(DbOf(last.peer), last.bin, last.id).code # "ok"

====
